---- MODULE Spec2Model ----
(***************************************************************************)
(* Model of the linguistic analysis engine of the Shuar-Spanish translator *)
(* (app/features/translation/domain): the translation quality scorer, the  *)
(* language classifier, the phonological feature extractor and the         *)
(* SimilarityScore value object.                                           *)
(*                                                                         *)
(* Every engine operation is a pure function of its arguments.  A          *)
(* behaviour of a specification below is one call: Init draws the          *)
(* arguments from bounded sets (args), the action applies the operation    *)
(* and stores what it returns or raises (ret).                             *)
(*                                                                         *)
(* Python floats are modelled as exact rationals <<numerator,              *)
(* denominator>>; math.log is modelled by a table of its values truncated  *)
(* to two decimals.  Where a result depends on the rounding of binary64    *)
(* (the weighted community rating) the arithmetic is modelled bit by bit.  *)
(***************************************************************************)
EXTENDS Integers, Sequences, FiniteSets, TLC

VARIABLES
    pc,     \* "ready" before the call, "done" after it
    args,   \* the arguments of the call, a record whose field op names the operation
    ret     \* NoReturn before the call, then Returned(value) or Raised(error)

vars == <<pc, args, ret>>

\* Optional[T]: None is the empty tuple, a present value x is Some(x)
None == <<>>
Some(x) == <<x>>
Get(o) == o[1]

NoReturn == [kind |-> "none"]
Returned(v) == [kind |-> "returned", value |-> v]
Raised(e) == [kind |-> "raised", error |-> e]

(***************************************************************************)
(* Exact rational arithmetic standing for float arithmetic.                *)
(***************************************************************************)
Abs(x) == IF x < 0 THEN -x ELSE x

RECURSIVE Gcd(_, _)
Gcd(a, b) == IF b = 0 THEN a ELSE Gcd(b, a % b)

Rat(n, d) ==
    LET g == Gcd(Abs(n), Abs(d))
        s == IF d < 0 THEN -1 ELSE 1
    IN  <<(s * n) \div g, (s * d) \div g>>

Num(x) == x[1]
Den(x) == x[2]
RInt(i) == <<i, 1>>
\* the numerators of x and y over their least common denominator
OverLcd(x, y) ==
    LET g == Gcd(Den(x), Den(y))
    IN  <<Num(x) * (Den(y) \div g), Num(y) * (Den(x) \div g), (Den(x) \div g) * Den(y)>>

RAdd(x, y) == LET c == OverLcd(x, y) IN Rat(c[1] + c[2], c[3])
RSub(x, y) == LET c == OverLcd(x, y) IN Rat(c[1] - c[2], c[3])
RMul(x, y) ==
    LET a == Rat(Num(x), Den(y))
        b == Rat(Num(y), Den(x))
    IN  <<Num(a) * Num(b), Den(a) * Den(b)>>
RDiv(x, y) == RMul(x, Rat(Den(y), Num(y)))
RLe(x, y) == LET c == OverLcd(x, y) IN c[1] <= c[2]
RLt(x, y) == LET c == OverLcd(x, y) IN c[1] < c[2]
RMin(x, y) == IF RLe(x, y) THEN x ELSE y
RMax(x, y) == IF RLe(x, y) THEN y ELSE x
RAbs(x) == <<Abs(Num(x)), Den(x)>>
Zero == RInt(0)
One == RInt(1)
Half == Rat(1, 2)

RECURSIVE RSum(_)
RSum(s) == IF s = <<>> THEN Zero ELSE RAdd(Head(s), RSum(Tail(s)))

RECURSIVE SeqsUpTo(_, _)
SeqsUpTo(S, n) ==
    IF n = 0 THEN {<<>>}
    ELSE LET shorter == SeqsUpTo(S, n - 1)
         IN  shorter \cup {Append(s, x) : s \in {t \in shorter : Len(t) = n - 1}, x \in S}

(***************************************************************************)
(* Translation Quality Scorer (translation_scoring_service.py)             *)
(***************************************************************************)
TranslationStatus == {"PENDING", "APPROVED", "REJECTED", "NEEDS_REVIEW"}

UserRole == {"VISITOR", "COMMUNITY_MEMBER", "VERIFIED_SPEAKER", "EXPERT", "ADMIN"}

FEEDBACK_WEIGHTS(role) ==
    CASE role = "VISITOR" -> Rat(10, 10)
      [] role = "COMMUNITY_MEMBER" -> Rat(12, 10)
      [] role = "VERIFIED_SPEAKER" -> Rat(20, 10)
      [] role = "EXPERT" -> Rat(30, 10)
      [] role = "ADMIN" -> Rat(30, 10)
      [] OTHER -> Rat(10, 10)

COMMUNITY_RATING_WEIGHT == Rat(25, 100)
EXPERT_APPROVAL_WEIGHT == Rat(30, 100)
USAGE_FREQUENCY_WEIGHT == Rat(15, 100)
PHONOLOGICAL_ACCURACY_WEIGHT == Rat(15, 100)
CULTURAL_APPROPRIATENESS_WEIGHT == Rat(15, 100)

\* math.log(k) for k = 1 .. 12, in hundredths, truncated
LogTable == <<0, 69, 109, 138, 160, 179, 194, 207, 219, 230, 239, 248>>

Log(k) == Rat(LogTable[k], 100)

\* math.log(101), in hundredths, truncated
Log101 == Rat(461, 100)

_get_status_confidence(status) ==
    CASE status = "APPROVED" -> Rat(9, 10)
      [] status = "NEEDS_REVIEW" -> Rat(6, 10)
      [] status = "PENDING" -> Rat(4, 10)
      [] status = "REJECTED" -> Rat(1, 10)
      [] OTHER -> Half

_calculate_rating_confidence(average_rating, total_ratings) ==
    IF total_ratings = 0 THEN Half
    ELSE LET rating_confidence == RDiv(RSub(average_rating, One), RInt(4))
             reliability_factor == RMin(One, Rat(total_ratings, 10))
         IN  RAdd(RMul(rating_confidence, reliability_factor),
                  RMul(Half, RSub(One, reliability_factor)))

\* faulty variant: the usage factor without its 0.3 floor for an unused translation
UsageConfidenceNoFloor(usage_count) ==
    IF usage_count = 0 THEN Zero
    ELSE RMin(One, RAdd(Rat(3, 10),
                        RMul(Rat(7, 10), RDiv(Log(usage_count + 1), Log101))))

_calculate_usage_confidence(usage_count) ==
    IF usage_count = 0 THEN Rat(3, 10)
    ELSE RMin(One, RAdd(Rat(3, 10),
                        RMul(Rat(7, 10), RDiv(Log(usage_count + 1), Log101))))

_calculate_word_based_confidence(word) ==
    LET c0 == Half
        c1 == IF word.is_verified THEN RAdd(c0, Rat(3, 10)) ELSE c0
        c2 == RAdd(c1, RMul(word.confidence_level, Rat(2, 10)))
        c3 == IF word.frequency_score > 10 THEN RAdd(c2, Rat(1, 10)) ELSE c2
    IN  RMin(One, c3)

\* the weight of one feedback item: the role weight, times 1.5 for a native speaker
FeedbackWeight(feedback) ==
    LET weight == FEEDBACK_WEIGHTS(feedback.user_role)
    IN  IF feedback.is_from_native_speaker THEN RMul(weight, Rat(15, 10)) ELSE weight

\* the items of the list that carry a rating, in order
RECURSIVE Rated(_)
Rated(feedback_list) ==
    IF feedback_list = <<>> THEN <<>>
    ELSE IF Head(feedback_list).rating # None
         THEN <<Head(feedback_list)>> \o Rated(Tail(feedback_list))
         ELSE Rated(Tail(feedback_list))

_calculate_feedback_confidence(feedback_list) ==
    IF feedback_list = <<>> THEN Half
    ELSE LET rated == Rated(feedback_list)
             weighted_scores ==
                 [i \in 1..Len(rated) |->
                     RMul(Rat(Get(rated[i].rating) - 1, 4), FeedbackWeight(rated[i]))]
             total_weight == RSum([i \in 1..Len(rated) |-> FeedbackWeight(rated[i])])
         IN  IF total_weight = Zero THEN Half
             ELSE RDiv(RSum(weighted_scores), total_weight)

\* the (score, weight) pairs collected by calculate_translation_confidence
ConfidenceFactors(translation, source_word, feedback_list) ==
    <<  <<_get_status_confidence(translation.status), Rat(30, 100)>>  >>
    \o (IF translation.total_ratings > 0
        THEN << <<_calculate_rating_confidence(translation.average_rating,
                                               translation.total_ratings),
                  Rat(25, 100)>> >>
        ELSE <<>>)
    \o << <<_calculate_usage_confidence(translation.usage_count), Rat(15, 100)>> >>
    \o (IF source_word # None
        THEN << <<_calculate_word_based_confidence(Get(source_word)), Rat(15, 100)>> >>
        ELSE <<>>)
    \o (IF feedback_list # <<>>
        THEN << <<_calculate_feedback_confidence(feedback_list), Rat(15, 100)>> >>
        ELSE <<>>)

calculate_translation_confidence(translation, source_word, feedback_list) ==
    LET confidence_factors == ConfidenceFactors(translation, source_word, feedback_list)
        n == Len(confidence_factors)
        total_weight == RSum([i \in 1..n |-> confidence_factors[i][2]])
        weighted_sum ==
            RSum([i \in 1..n |-> RMul(confidence_factors[i][1], confidence_factors[i][2])])
    IN  IF total_weight = Zero THEN Half
        ELSE RMin(One, RDiv(weighted_sum, total_weight))


_calculate_weighted_community_rating(feedback_list) ==
    IF feedback_list = <<>> THEN Zero
    ELSE LET rated == Rated(feedback_list)
             weighted_ratings ==
                 [i \in 1..Len(rated) |->
                     RMul(RInt(Get(rated[i].rating)), FeedbackWeight(rated[i]))]
             total_weight == RSum([i \in 1..Len(rated) |-> FeedbackWeight(rated[i])])
         IN  IF total_weight = Zero THEN Zero
             ELSE RDiv(RSum(weighted_ratings), total_weight)

\* faulty variant: a missing community rating normalised like a rating of 1, not as neutral
NormalizedRatingNoNeutral(community_rating) ==
    IF RLt(Zero, community_rating)
    THEN RDiv(RSub(community_rating, One), RInt(4))
    ELSE Zero

\* the community rating rescaled from [1,5] to [0,1]; 0 (no rating) counts as 0.5
NormalizedRating(community_rating) ==
    IF RLt(Zero, community_rating)
    THEN RDiv(RSub(community_rating, One), RInt(4))
    ELSE Half

_calculate_overall_quality(confidence_score, community_rating, expert_approval, usage_frequency, phonological_accuracy, cultural_appropriateness) ==
    LET normalized_rating == NormalizedRating(community_rating)
        expert_bonus == IF expert_approval THEN Rat(2, 10) ELSE Zero
        usage_factor == RMin(Rat(2, 10), RDiv(Log(usage_frequency + 1), RInt(25)))
        quality_score ==
            RSum(<< RMul(confidence_score, COMMUNITY_RATING_WEIGHT),
                    RMul(normalized_rating, EXPERT_APPROVAL_WEIGHT),
                    RMul(phonological_accuracy, PHONOLOGICAL_ACCURACY_WEIGHT),
                    RMul(cultural_appropriateness, CULTURAL_APPROPRIATENESS_WEIGHT),
                    expert_bonus,
                    usage_factor >>)
    IN  RMin(One, quality_score)

(***************************************************************************)
(* One call of calculate_translation_confidence.                           *)
(***************************************************************************)
MaxRatings == 1
MaxUsage == 1
MaxFeedback == 2

RatingValues == 1..5

\* a Feedback as the scorer reads it; rating 0 stands for "no rating"
Feedback(rating, user_role, is_from_native_speaker) ==
    [rating |-> IF rating = 0 THEN None ELSE Some(rating), user_role |-> user_role,
     is_from_native_speaker |-> is_from_native_speaker]

\* feedback items covering every role, both native-speaker flags, rated and unrated
FeedbackSamples ==
    { Feedback(0, "VISITOR", FALSE),
      Feedback(1, "VISITOR", FALSE),
      Feedback(3, "VISITOR", TRUE),
      Feedback(2, "COMMUNITY_MEMBER", FALSE),
      Feedback(4, "VERIFIED_SPEAKER", TRUE),
      Feedback(5, "EXPERT", FALSE),
      Feedback(1, "EXPERT", TRUE),
      Feedback(5, "ADMIN", TRUE) }

FeedbackLists == SeqsUpTo(FeedbackSamples, MaxFeedback)

\* the lists drawn for the overall-quality combination
QualityFeedbackLists ==
    SeqsUpTo({Feedback(0, "VISITOR", FALSE), Feedback(1, "VISITOR", FALSE),
              Feedback(3, "VERIFIED_SPEAKER", TRUE), Feedback(5, "EXPERT", FALSE)},
             MaxFeedback)

\* the lists drawn for calculate_translation_confidence: unrated, low and high items
ConfidenceFeedbackLists ==
    SeqsUpTo({Feedback(0, "VISITOR", FALSE), Feedback(2, "COMMUNITY_MEMBER", FALSE),
              Feedback(5, "ADMIN", TRUE)}, MaxFeedback)

\* a Translation as the scorer reads it: average_rating is 0.0 until the first rating
Translations ==
    { [status |-> s, total_ratings |-> n, average_rating |-> RInt(a), usage_count |-> u] :
        s \in TranslationStatus, n \in 0..MaxRatings, a \in {0} \cup RatingValues,
        u \in 0..MaxUsage }

TranslationOk(t) == (t.total_ratings = 0) <=> (t.average_rating = Zero)

Words ==
    { [is_verified |-> v, confidence_level |-> c, frequency_score |-> f] :
        v \in BOOLEAN, c \in {Zero, One}, f \in {0, 11} }

InitConfidence ==
    /\ pc = "ready"
    /\ ret = NoReturn
    /\ \E t \in {x \in Translations : TranslationOk(x)},
          w \in {None} \cup {Some(x) : x \in Words}, fl \in ConfidenceFeedbackLists :
          args = [op |-> "calculate_translation_confidence", translation |-> t,
                  source_word |-> w, feedback_list |-> fl]

CalculateTranslationConfidence ==
    /\ pc = "ready"
    /\ args.op = "calculate_translation_confidence"
    /\ ret' = Returned(calculate_translation_confidence(
                          args.translation, args.source_word, args.feedback_list))
    /\ pc' = "done"
    /\ UNCHANGED args

NextConfidence == CalculateTranslationConfidence

SpecConfidence == InitConfidence /\ [][NextConfidence]_vars

\* the call C1 is about: no rating, no usage, no source word, no feedback
BareTranslationCall ==
    /\ pc = "done"
    /\ args.op = "calculate_translation_confidence"
    /\ args.translation.total_ratings = 0
    /\ args.translation.usage_count = 0
    /\ args.source_word = None
    /\ args.feedback_list = <<>>

\* C1 (as stated): with no ratings, no usage, no source word and no feedback,
\* calculate_translation_confidence returns exactly 0.5 whatever the status.
C1_NeutralDefault == BareTranslationCall => ret = Returned(Half)

\* C1 (amended): in that case the status factor (weight 0.3) and the usage floor
\* 0.3 (weight 0.15) still contribute, so the result is (0.3*status + 0.045)/0.45:
\* 0.7 for approved, 0.5 for needs-review, 11/30 for pending, 1/6 for rejected.
C1_StatusAndUsageFloor ==
    BareTranslationCall =>
        ret = Returned(CASE args.translation.status = "APPROVED" -> Rat(7, 10)
                         [] args.translation.status = "NEEDS_REVIEW" -> Rat(1, 2)
                         [] args.translation.status = "PENDING" -> Rat(11, 30)
                         [] args.translation.status = "REJECTED" -> Rat(1, 6))

C1_Witness ==
    /\ BareTranslationCall
    /\ args.translation.status = "APPROVED"
    /\ ret = Returned(Rat(7, 10))

(***************************************************************************)
(* One evaluation of the overall-quality combination on the community      *)
(* ratings of two feedback lists, all its other inputs being the same.     *)
(***************************************************************************)
InitQuality ==
    /\ pc = "ready"
    /\ ret = NoReturn
    /\ \E fl1 \in QualityFeedbackLists, fl2 \in QualityFeedbackLists,
          c \in {Half, One}, e \in BOOLEAN, u \in 0..MaxUsage,
          pa \in {Half, One}, ca \in {Rat(7, 10)} :
          args = [op |-> "_calculate_overall_quality",
                  feedback_list |-> fl1, other_feedback_list |-> fl2,
                  confidence_score |-> c, expert_approval |-> e, usage_frequency |-> u,
                  phonological_accuracy |-> pa, cultural_appropriateness |-> ca]

OverallOf(community_rating) ==
    _calculate_overall_quality(args.confidence_score, community_rating,
                               args.expert_approval, args.usage_frequency,
                               args.phonological_accuracy, args.cultural_appropriateness)

CalculateOverallQuality ==
    /\ pc = "ready"
    /\ args.op = "_calculate_overall_quality"
    /\ LET r1 == _calculate_weighted_community_rating(args.feedback_list)
           r2 == _calculate_weighted_community_rating(args.other_feedback_list)
       IN  ret' = Returned([community_rating |-> r1, overall |-> OverallOf(r1),
                            other_community_rating |-> r2, other_overall |-> OverallOf(r2)])
    /\ pc' = "done"
    /\ UNCHANGED args

NextQuality == CalculateOverallQuality

SpecQuality == InitQuality /\ [][NextQuality]_vars

QualityDone == pc = "done" /\ args.op = "_calculate_overall_quality"

\* every community rating the scorer produces is 0 (nothing rated) or lies in [1,5]
CommunityRatingRange ==
    QualityDone =>
        \/ ret.value.community_rating = Zero
        \/ RLe(One, ret.value.community_rating) /\ RLe(ret.value.community_rating, RInt(5))

\* C10 (as stated): for community ratings r1 <= r2 (0 for no rated feedback, else in
\* [1,5]) and all other inputs fixed, overall(r1) <= overall(r2).
C10_MonotoneInRating ==
    (QualityDone /\ RLe(ret.value.community_rating, ret.value.other_community_rating))
        => RLe(ret.value.overall, ret.value.other_overall)

\* C10 (amended): the overall score is non-decreasing in the community rating over
\* the rated values [1,5]; the value 0 (no rated feedback) scores exactly like a
\* rating of 3 (normalised 0.5), so it is not below the ratings in [1,3).
C10_MonotoneOverRated ==
    QualityDone =>
        LET r1 == ret.value.community_rating
            r2 == ret.value.other_community_rating
        IN  /\ (RLe(One, r1) /\ RLe(r1, r2))
                    => RLe(ret.value.overall, ret.value.other_overall)
            /\ (r1 = Zero /\ r2 = RInt(3)) => ret.value.overall = ret.value.other_overall

C10_Witness ==
    /\ QualityDone
    /\ RLe(One, ret.value.community_rating)
    /\ RLt(ret.value.community_rating, ret.value.other_community_rating)
    /\ RLt(ret.value.overall, ret.value.other_overall)

(***************************************************************************)
(* IEEE-754 binary64 arithmetic on positive values, for the places where   *)
(* the rounding of a Python float is visible in a result.  A natural       *)
(* number is its sequence of digits to the base Radix, least significant first,  *)
(* without leading zeros (0 is <<>>); a float is [m, e] with m of exactly  *)
(* MantissaBits bits and value m * 2^e, or F64Zero.  Results are rounded   *)
(* to nearest, ties to even.                                               *)
(***************************************************************************)
MantissaBits == 53

RadixBits == 14
Radix == 2 ^ RadixBits

BDigit(a, i) == IF i <= Len(a) THEN a[i] ELSE 0

\* a without its leading zeros
BTrim(a) ==
    SubSeq(a, 1, CHOOSE n \in 0..Len(a) :
                     /\ n > 0 => a[n] # 0
                     /\ \A i \in n + 1..Len(a) : a[i] = 0)

BFromNat(n) == BTrim(<<n % Radix, (n \div Radix) % Radix, n \div (Radix * Radix)>>)

\* the number whose i-th place holds s[i] < 2 * Radix: a place takes a carry
\* when a lower place overflows and every place between is full
BCarry(s, i) ==
    \E j \in 1..i - 1 : s[j] >= Radix /\ \A k \in j + 1..i - 1 : s[k] = Radix - 1

BNorm(s) ==
    BTrim([i \in 1..Len(s) + 1 |-> (BDigit(s, i) + (IF BCarry(s, i) THEN 1 ELSE 0)) % Radix])

BAdd(a, b) ==
    BNorm(SubSeq([i \in 1..Len(a) + Len(b) |-> BDigit(a, i) + BDigit(b, i)], 1, Len(a) + Len(b)))

\* a - b for a >= b: a place lends when a lower place is short and every
\* place between is level
BBorrow(a, b, i) ==
    \E j \in 1..i - 1 :
        BDigit(a, j) < BDigit(b, j) /\ \A k \in j + 1..i - 1 : BDigit(a, k) = BDigit(b, k)

BSub(a, b) ==
    BTrim([i \in 1..Len(a) |->
              (Radix + a[i] - BDigit(b, i) - (IF BBorrow(a, b, i) THEN 1 ELSE 0)) % Radix])

BLt(a, b) ==
    IF Len(a) # Len(b) THEN Len(a) < Len(b)
    ELSE \E i \in 1..Len(a) : a[i] < b[i] /\ \A k \in i + 1..Len(a) : a[k] = b[k]

\* a * k for 0 <= k <= Radix
BMulSmall(a, k) ==
    BNorm(SubSeq([i \in 1..Len(a) + 1 |->
                     ((BDigit(a, i) * k) % Radix)
                     + (IF i > 1 THEN (a[i - 1] * k) \div Radix ELSE 0)], 1, Len(a) + 1))

\* a * 2^k
BShl(a, k) ==
    IF a = <<>> THEN <<>>
    ELSE [i \in 1..(k \div RadixBits) |-> 0] \o BMulSmall(a, 2 ^ (k % RadixBits))

\* the number of bits of a # 0
BBitLen(a) ==
    RadixBits * (Len(a) - 1)
    + (CHOOSE b \in 1..RadixBits : 2 ^ (b - 1) <= a[Len(a)] /\ a[Len(a)] < 2 ^ b)

\* one step of the long division by d: qr is <<quotient, remainder>> of the
\* digits taken so far, and the next quotient digit, estimated from the top
\* digits of the remainder, is at most 2 too large when the top digit of d is
\* at least Radix / 2
BDivStep(digit, d, qr) ==
    LET r2 == BTrim(<<digit>> \o qr[2])
        top == BDigit(r2, Len(d) + 1) * Radix + BDigit(r2, Len(d))
        qhat == IF top \div d[Len(d)] < Radix THEN top \div d[Len(d)] ELSE Radix - 1
        k == CHOOSE c \in {qhat - 2, qhat - 1, qhat} :
                 /\ c >= 0
                 /\ ~BLt(r2, BMulSmall(d, c))
                 /\ BLt(r2, BMulSmall(d, c + 1))
    IN  <<(<<k>> \o qr[1]), BSub(r2, BMulSmall(d, k))>>

\* the steps for the digits i, i - 1, .. 1 of n; the remainder stays below d
RECURSIVE BDivFrom(_, _, _, _)
BDivFrom(n, d, i, qr) ==
    IF i = 0 \/ ~BLt(qr[2], d) THEN qr ELSE BDivFrom(n, d, i - 1, BDivStep(n[i], d, qr))

\* <<quotient, remainder>> of n by d, one digit of n at a time from the top
BDivMod(n, d) ==
    LET qr == BDivFrom(n, d, Len(n), <<<<>>, <<>>>>)
    IN  <<BTrim(qr[1]), qr[2]>>

F64Zero == [m |-> <<>>, e |-> 0]

\* the float nearest to n * 2^e (n # 0); sticky tells that bits below n were cut off
F64Round(n, e, sticky) ==
    IF BBitLen(n) <= MantissaBits
    THEN [m |-> BShl(n, MantissaBits - BBitLen(n)), e |-> e - (MantissaBits - BBitLen(n))]
    ELSE LET j == (RadixBits - ((BBitLen(n) - MantissaBits) % RadixBits)) % RadixBits
             n2 == BShl(n, j)
             t == (BBitLen(n) + j - MantissaBits) \div RadixBits
             kept == SubSeq(n2, t + 1, Len(n2))
             below == sticky \/ n2[t] % (Radix \div 2) # 0 \/ \E i \in 1..t - 1 : n2[i] # 0
             up == n2[t] >= Radix \div 2 /\ (below \/ kept[1] % 2 = 1)
             m2 == IF up THEN BAdd(kept, <<1>>) ELSE kept
         IN  IF BBitLen(m2) > MantissaBits
             THEN [m |-> BShl(<<1>>, MantissaBits - 1), e |-> e - j + RadixBits * t + 1]
             ELSE [m |-> m2, e |-> e - j + RadixBits * t]

\* float(n) for a natural number n
F64Nat(n) == IF n = 0 THEN F64Zero ELSE F64Round(BFromNat(n), 0, FALSE)

F64Add(x, y) ==
    IF x = F64Zero THEN y
    ELSE IF y = F64Zero THEN x
    ELSE LET e0 == IF x.e < y.e THEN x.e ELSE y.e
         IN  F64Round(BAdd(BShl(x.m, x.e - e0), BShl(y.m, y.e - e0)), e0, FALSE)

\* x * (k * 2^s), the product of x with a float whose mantissa is the small number k
F64MulSmall(x, k, s) ==
    IF x = F64Zero \/ k = 0 THEN F64Zero
    ELSE F64Round(BMulSmall(x.m, k), x.e + s, FALSE)

\* x / y for y # 0: the mantissas are scaled so that the divisor fills its
\* top digit and the quotient has more than MantissaBits + 1 bits
DivShift == 4 * RadixBits
DivNorm == 4 * RadixBits - MantissaBits

F64Div(x, y) ==
    IF x = F64Zero THEN F64Zero
    ELSE LET qr == BDivMod(BShl(x.m, DivShift + DivNorm), BShl(y.m, DivNorm))
         IN  F64Round(qr[1], x.e - y.e - DivShift, qr[2] # <<>>)

F64Le(x, y) ==
    IF x = F64Zero THEN TRUE
    ELSE IF y = F64Zero THEN FALSE
    ELSE LET e0 == IF x.e < y.e THEN x.e ELSE y.e
         IN  ~BLt(BShl(y.m, y.e - e0), BShl(x.m, x.e - e0))

\* the float written as the decimal literal n/d in the source
F64Of(r) == F64Div(F64Nat(r[1]), F64Nat(r[2]))

(***************************************************************************)
(* The weighted community rating as binary64 computes it.                  *)
(***************************************************************************)

\* FEEDBACK_WEIGHTS as floats
FEEDBACK_WEIGHTS_F64 == [role \in UserRole |-> F64Of(FEEDBACK_WEIGHTS(role))]

\* the table role_weights of Feedback.get_weight
role_weights(role) ==
    CASE role = "VISITOR" -> Rat(10, 10)
      [] role = "COMMUNITY_MEMBER" -> Rat(12, 10)
      [] role = "VERIFIED_SPEAKER" -> Rat(20, 10)
      [] role = "EXPERT" -> Rat(30, 10)
      [] role = "ADMIN" -> Rat(30, 10)
      [] OTHER -> Rat(10, 10)

role_weights_F64 == [role \in UserRole |-> F64Of(role_weights(role))]

\* Feedback.get_weight; base_weight *= 1.5 is a product with 3 * 2^-1
get_weight(self) ==
    IF self.is_from_native_speaker
    THEN F64MulSmall(role_weights_F64[self.user_role], 3, -1)
    ELSE role_weights_F64[self.user_role]

\* the weight the scorer gives a feedback item (lines 237-240)
FeedbackWeightF64(feedback) ==
    IF feedback.is_from_native_speaker
    THEN F64MulSmall(FEEDBACK_WEIGHTS_F64[feedback.user_role], 3, -1)
    ELSE FEEDBACK_WEIGHTS_F64[feedback.user_role]

\* sum(...) and +=: the terms added one by one from the left
RECURSIVE F64Sum(_)
F64Sum(s) ==
    IF s = <<>> THEN F64Zero
    ELSE F64Add(F64Sum(SubSeq(s, 1, Len(s) - 1)), s[Len(s)])

\* _calculate_weighted_community_rating in binary64
WeightedCommunityRatingF64(feedback_list) ==
    IF feedback_list = <<>> THEN F64Zero
    ELSE LET rated == Rated(feedback_list)
             weighted_ratings ==
                 [i \in 1..Len(rated) |->
                     F64MulSmall(FeedbackWeightF64(rated[i]), Get(rated[i].rating), 0)]
             total_weight ==
                 F64Sum([i \in 1..Len(rated) |-> FeedbackWeightF64(rated[i])])
         IN  IF total_weight = F64Zero THEN F64Zero
             ELSE F64Div(F64Sum(weighted_ratings), total_weight)

(***************************************************************************)
(* SpecRating: one call of _calculate_weighted_community_rating.           *)
(***************************************************************************)
RatingFeedbackLists ==
    SeqsUpTo({Feedback(0, "VISITOR", FALSE), Feedback(1, "VISITOR", FALSE),
              Feedback(3, "COMMUNITY_MEMBER", FALSE), Feedback(5, "COMMUNITY_MEMBER", TRUE),
              Feedback(4, "VERIFIED_SPEAKER", TRUE), Feedback(5, "EXPERT", FALSE),
              Feedback(2, "ADMIN", TRUE), Feedback(0, "EXPERT", TRUE)},
             MaxFeedback)

InitRating ==
    /\ pc = "ready"
    /\ ret = NoReturn
    /\ \E fl \in RatingFeedbackLists :
          args = [op |-> "_calculate_weighted_community_rating", feedback_list |-> fl]

CalculateWeightedCommunityRating ==
    /\ pc = "ready"
    /\ args.op = "_calculate_weighted_community_rating"
    /\ ret' = Returned(WeightedCommunityRatingF64(args.feedback_list))
    /\ pc' = "done"
    /\ UNCHANGED args

NextRating == CalculateWeightedCommunityRating

SpecRating == InitRating /\ [][NextRating]_vars

\* the role weight the claim states, times 1.5 for a native speaker
StatedWeight(feedback) ==
    LET w == CASE feedback.user_role = "VISITOR" -> F64Nat(1)
               [] feedback.user_role = "COMMUNITY_MEMBER" -> F64Of(Rat(12, 10))
               [] feedback.user_role = "VERIFIED_SPEAKER" -> F64Nat(2)
               [] feedback.user_role = "EXPERT" -> F64Nat(3)
               [] feedback.user_role = "ADMIN" -> F64Nat(3)
    IN  IF feedback.is_from_native_speaker THEN F64MulSmall(w, 3, -1) ELSE w

\* C19: the weighted community rating is sum(rating_i * w_i) / sum(w_i) over the
\* items that carry a rating, w_i being the role weight (visitor 1.0, community
\* member 1.2, verified speaker 2.0, expert 3.0, admin 3.0) times 1.5 for a
\* native speaker; it is 0 when no item carries a rating and lies in [1,5]
\* otherwise; and the scorer's weight equals Feedback.get_weight() for every
\* role and native-speaker flag.
C19_RoleWeightedAverage ==
    (pc = "done" /\ args.op = "_calculate_weighted_community_rating") =>
        LET rated == Rated(args.feedback_list)
            w == [i \in 1..Len(rated) |-> StatedWeight(rated[i])]
            rw == [i \in 1..Len(rated) |-> F64MulSmall(w[i], Get(rated[i].rating), 0)]
        IN  /\ rated = <<>> => ret.value = F64Zero
            /\ rated # <<>> =>
                   /\ ret.value = F64Div(F64Sum(rw), F64Sum(w))
                   /\ F64Le(F64Nat(1), ret.value)
                   /\ F64Le(ret.value, F64Nat(5))
            /\ \A role \in UserRole, native \in BOOLEAN :
                   FeedbackWeightF64(Feedback(1, role, native))
                       = get_weight(Feedback(1, role, native))

(***************************************************************************)
(* Text.  A str is a sequence of characters; a character is a one-letter   *)
(* string, or a letter followed by ' (acute accent), : (diaeresis) or      *)
(* ~ (tilde).                                                              *)
(***************************************************************************)
UpperCase == <<"A", "O", "T", "S", "Y", "A'", "A:">>
LowerCase == <<"a", "o", "t", "s", "y", "a'", "a:">>

\* str.lower() on one character
LowerChar(c) ==
    IF \E i \in 1..Len(UpperCase) : UpperCase[i] = c
    THEN LowerCase[CHOOSE i \in 1..Len(UpperCase) : UpperCase[i] = c]
    ELSE c

Lower(text) == [i \in 1..Len(text) |-> LowerChar(text[i])]

IsSpace(c) == c = " "

RECURSIVE LStrip(_)
LStrip(text) ==
    IF text # <<>> /\ IsSpace(Head(text)) THEN LStrip(Tail(text)) ELSE text

RECURSIVE RStrip(_)
RStrip(text) ==
    IF text # <<>> /\ IsSpace(text[Len(text)])
    THEN RStrip(SubSeq(text, 1, Len(text) - 1))
    ELSE text

\* str.strip()
Strip(text) == RStrip(LStrip(text))

\* str.split(): the maximal runs of non-space characters, in order
RECURSIVE SplitFrom(_, _)
SplitFrom(text, word) ==
    IF text = <<>> THEN (IF word = <<>> THEN <<>> ELSE <<word>>)
    ELSE IF IsSpace(Head(text))
         THEN (IF word = <<>> THEN <<>> ELSE <<word>>) \o SplitFrom(Tail(text), <<>>)
         ELSE SplitFrom(Tail(text), Append(word, Head(text)))

Split(text) == SplitFrom(text, <<>>)

\* str.count(sub): the non-overlapping occurrences of sub, scanning left to right
RECURSIVE Count(_, _)
Count(text, sub) ==
    IF Len(text) < Len(sub) THEN 0
    ELSE IF SubSeq(text, 1, Len(sub)) = sub
         THEN 1 + Count(SubSeq(text, Len(sub) + 1, Len(text)), sub)
         ELSE Count(Tail(text), sub)

\* str.replace(old, new) for a one-character new
RECURSIVE Replace(_, _, _)
Replace(text, old, new) ==
    IF Len(text) < Len(old) THEN text
    ELSE IF SubSeq(text, 1, Len(old)) = old
         THEN <<new>> \o Replace(SubSeq(text, Len(old) + 1, Len(text)), old, new)
         ELSE <<Head(text)>> \o Replace(Tail(text), old, new)

EndsWith(word, suffix) ==
    /\ Len(suffix) <= Len(word)
    /\ SubSeq(word, Len(word) - Len(suffix) + 1, Len(word)) = suffix

Chars(text) == {text[i] : i \in 1..Len(text)}

\* the number of positions of text whose character is in set
CountIn(text, set) == Cardinality({i \in 1..Len(text) : text[i] \in set})

RECURSIVE SumLen(_)
SumLen(words) == IF words = <<>> THEN 0 ELSE Len(Head(words)) + SumLen(Tail(words))

RECURSIVE Concat(_)
Concat(chunks) == IF chunks = <<>> THEN <<>> ELSE Head(chunks) \o Concat(Tail(chunks))

(***************************************************************************)
(* Language Classifier (language_detection_service.py)                     *)
(***************************************************************************)
SHUAR_VOWELS == {"a", "e", "i", "u", "a'", "e'", "i'", "u'", "a:", "e:", "i:", "u:"}
SHUAR_NASAL_VOWELS == {"a'", "e'", "i'", "u'"}
SHUAR_LARYNGEALIZED_VOWELS == {"a:", "e:", "i:", "u:"}
SHUAR_DIGRAPHS == {<<"c", "h">>, <<"s", "h">>, <<"t", "s">>}
SPANISH_VOWELS == {"a", "e", "i", "o", "u", "a'", "e'", "i'", "o'", "u'", "u:"}
SPANISH_DIGRAPHS == {<<"c", "h">>, <<"l", "l">>, <<"r", "r">>}

SHUAR_COMMON_WORDS ==
    {
    <<"y", "a", "w", "a">>, <<"j", "e", "a">>, <<"s", "h", "u", "a", "r">>,
    <<"a", "r", "u", "t", "a", "m">>, <<"n", "u'", "k", "a">>, <<"a", "p", "a">>,
    <<"e", "n", "t", "s", "a">>, <<"t", "s", "a", "a">>, <<"s", "a", "a", "n", "t">>,
    <<"k", "u", "n", "k", "u", "k">>, <<"c", "h", "i", "c", "h", "i", "m">>, <<"w", "a", "m", "p", "i", "s", "h">>,
    <<"n", "u", "n", "a">>, <<"m", "a", "m", "a">>, <<"t", "a", "u">>,
    <<"i", "n", "i", "a">>, <<"u", "u", "n", "t">>, <<"y", "a:">>,
    <<"t", "a", "k", "u", "n", "i">>, <<"t", "s", "a'", "a", "n", "i", "n">> }

SPANISH_COMMON_WORDS ==
    {
    <<"e", "l">>, <<"l", "a">>, <<"d", "e">>, <<"q", "u", "e">>,
    <<"y">>, <<"a">>, <<"e", "n">>, <<"u", "n">>,
    <<"e", "s">>, <<"s", "e">>, <<"n", "o">>, <<"t", "e">>,
    <<"l", "o">>, <<"l", "e">>, <<"d", "a">>, <<"s", "u">>,
    <<"p", "o", "r">>, <<"s", "o", "n">>, <<"c", "o", "n">>, <<"p", "a", "r", "a">>,
    <<"c", "a", "s", "a">>, <<"p", "e", "r", "r", "o">>, <<"a", "g", "u", "a">>, <<"b", "u", "e", "n", "o">>,
    <<"g", "r", "a", "n", "d", "e">>, <<"p", "e", "r", "s", "o", "n", "a">>, <<"s", "o", "l">> }

\* the suffix strings as written in the source, leading hyphen included
SHUAR_SUFFIXES ==
    {
    <<"-", "n", "i">>, <<"-", "a", "i">>, <<"-", "k", "a">>,
    <<"-", "m", "a">>, <<"-", "t", "a">>, <<"-", "n", "u">>,
    <<"-", "t", "u">>, <<"-", "c", "h", "i">> }

SPANISH_SUFFIXES ==
    {
    <<"-", "c", "i", "o'", "n">>, <<"-", "d", "a", "d">>, <<"-", "m", "e", "n", "t", "e">>,
    <<"-", "o", "s", "o">>, <<"-", "o", "s", "a">>, <<"-", "a", "d", "o">>,
    <<"-", "a", "d", "a">>, <<"-", "e", "r", "o">>, <<"-", "e", "r", "a">> }

\* str.isalpha() on one character: every character of the model but these
IsAlpha(c) == c \notin {" ", "-", "1"}

\* the characters matched by [bcdfghjklmnpqrstvwxyz]
RegexConsonants ==
    {"b", "c", "d", "f", "g", "h", "j", "k", "l", "m", "n", "p", "q", "r", "s", "t",
     "v", "w", "x", "y", "z"}

_count_feature_ratio(text, feature_set, total_chars) ==
    IF total_chars = 0 THEN Zero
    ELSE Rat(CountIn(text, feature_set), total_chars)

RECURSIVE SumCounts(_, _)
SumCounts(text, subs) ==
    IF subs = {} THEN 0
    ELSE LET d == CHOOSE x \in subs : TRUE
         IN  Count(text, d) + SumCounts(text, subs \ {d})

_count_digraph_ratio(text, digraphs, total_words) ==
    IF total_words = 0 THEN Zero
    ELSE Rat(SumCounts(text, digraphs), total_words)

Clamp01(x) == RMax(Zero, RMin(One, x))

_analyze_vowel_system_shuar(text) ==
    LET vowels_found == Chars(text) \cap SHUAR_VOWELS
        base_found == vowels_found \cap {"a", "e", "i", "u"}
        s0 == Rat(Cardinality(base_found), 4)
        s1 == IF vowels_found \cap SHUAR_NASAL_VOWELS # {} THEN RAdd(s0, Rat(3, 10)) ELSE s0
        s2 == IF vowels_found \cap SHUAR_LARYNGEALIZED_VOWELS # {}
              THEN RAdd(s1, Rat(4, 10)) ELSE s1
        s3 == IF "o" \in vowels_found THEN RSub(s2, Rat(5, 10)) ELSE s2
    IN  Clamp01(s3)

_analyze_vowel_system_spanish(text) ==
    LET vowels_found == Chars(text) \cap SPANISH_VOWELS
        base_found == vowels_found \cap {"a", "e", "i", "o", "u"}
        s0 == Rat(Cardinality(base_found), 5)
        s1 == IF "o" \in vowels_found THEN RAdd(s0, Rat(3, 10)) ELSE s0
        s2 == IF vowels_found \cap SHUAR_LARYNGEALIZED_VOWELS # {}
              THEN RSub(s1, Rat(6, 10)) ELSE s1
    IN  Clamp01(s2)

_count_common_words(words, common_set) ==
    IF words = <<>> THEN Zero
    ELSE Rat(Cardinality({i \in 1..Len(words) : words[i] \in common_set}), Len(words))

_count_suffix_patterns(words, suffix_set) ==
    IF words = <<>> THEN Zero
    ELSE Rat(Cardinality({i \in 1..Len(words) :
                             \E suffix \in suffix_set : EndsWith(words[i], suffix)}),
             Len(words))

_calculate_consonant_density(text) ==
    IF text = <<>> THEN Zero
    ELSE LET consonants ==
                 Cardinality({i \in 1..Len(text) :
                                 IsAlpha(text[i]) /\ text[i] \notin SHUAR_VOWELS})
             total_letters == Cardinality({i \in 1..Len(text) : IsAlpha(text[i])})
         IN  IF total_letters > 0 THEN Rat(consonants, total_letters) ELSE Zero

_calculate_vowel_diversity(text) ==
    Rat(Cardinality(Chars(text) \cap (SHUAR_VOWELS \cup SPANISH_VOWELS)),
        Cardinality(SPANISH_VOWELS))

\* len(re.findall(r'[bcdfghjklmnpqrstvwxyz]{2,}', word)): the maximal runs of two or
\* more of these consonants
ClusterCount(word) ==
    Cardinality({i \in 1..Len(word) - 1 :
                    /\ word[i] \in RegexConsonants
                    /\ word[i + 1] \in RegexConsonants
                    /\ (i = 1 \/ word[i - 1] \notin RegexConsonants)})

_estimate_syllable_complexity(text) ==
    LET words == Split(text)
    IN  IF words = <<>> THEN Zero
        ELSE RDiv(RSum([i \in 1..Len(words) |-> Rat(ClusterCount(words[i]), Len(words[i]))]),
                  RInt(Len(words)))

_analyze_features(text) ==
    LET words == Split(text)
        total_chars == Len(text) - CountIn(text, {" "})
    IN  [shuar_nasal_vowels |-> _count_feature_ratio(text, SHUAR_NASAL_VOWELS, total_chars),
         shuar_laryngealized_vowels |->
             _count_feature_ratio(text, SHUAR_LARYNGEALIZED_VOWELS, total_chars),
         shuar_digraphs |-> _count_digraph_ratio(text, SHUAR_DIGRAPHS, Len(words)),
         spanish_digraphs |-> _count_digraph_ratio(text, SPANISH_DIGRAPHS, Len(words)),
         has_spanish_o |-> IF "o" \in Chars(text) THEN One ELSE Zero,
         vowel_system_shuar |-> _analyze_vowel_system_shuar(text),
         vowel_system_spanish |-> _analyze_vowel_system_spanish(text),
         shuar_common_words |-> _count_common_words(words, SHUAR_COMMON_WORDS),
         spanish_common_words |-> _count_common_words(words, SPANISH_COMMON_WORDS),
         shuar_suffixes |-> _count_suffix_patterns(words, SHUAR_SUFFIXES),
         spanish_suffixes |-> _count_suffix_patterns(words, SPANISH_SUFFIXES),
         consonant_density |-> _calculate_consonant_density(text),
         vowel_diversity |-> _calculate_vowel_diversity(text),
         avg_word_length |->
             IF words # <<>> THEN Rat(SumLen(words), Len(words)) ELSE Zero,
         syllable_complexity |-> _estimate_syllable_complexity(text)]

_calculate_shuar_score(features) ==
    LET score ==
            RSum(<< RMul(features.shuar_nasal_vowels, RInt(3)),
                    RMul(features.shuar_laryngealized_vowels, RInt(4)),
                    RMul(features.vowel_system_shuar, RInt(2)),
                    RMul(features.shuar_common_words, RInt(3)),
                    RMul(features.shuar_suffixes, RInt(2)),
                    RMul(features.shuar_digraphs, Rat(15, 10)) >>)
    IN  IF RLt(RInt(4), features.avg_word_length) THEN RAdd(score, One) ELSE score

\* faulty variant: the Spanish score without its floor at 0
SpanishScoreUnfloored(features) ==
    RSub(RSum(<< RMul(features.has_spanish_o, RInt(3)),
                 RMul(features.vowel_system_spanish, RInt(2)),
                 RMul(features.spanish_common_words, RInt(3)),
                 RMul(features.spanish_suffixes, RInt(2)),
                 RMul(features.spanish_digraphs, Rat(15, 10)) >>),
         RAdd(RMul(features.shuar_laryngealized_vowels, RInt(2)),
              features.shuar_nasal_vowels))

_calculate_spanish_score(features) ==
    LET score ==
            RSub(RSum(<< RMul(features.has_spanish_o, RInt(3)),
                         RMul(features.vowel_system_spanish, RInt(2)),
                         RMul(features.spanish_common_words, RInt(3)),
                         RMul(features.spanish_suffixes, RInt(2)),
                         RMul(features.spanish_digraphs, Rat(15, 10)) >>),
                 RAdd(RMul(features.shuar_laryngealized_vowels, RInt(2)),
                      features.shuar_nasal_vowels))
    IN  RMax(Zero, score)

_get_confidence_level(confidence) ==
    IF RLt(Rat(8, 10), confidence) THEN "HIGH"
    ELSE IF RLt(Rat(5, 10), confidence) THEN "MEDIUM"
    ELSE "LOW"

\* faulty variant: only the empty string is rejected, not a blank text
DetectLanguageEmptyOnly(text0) ==
    IF text0 = <<>> THEN Raised("ValidationError")
    ELSE LET text == Strip(Lower(text0))
             features == _analyze_features(text)
             shuar_score == _calculate_shuar_score(features)
             spanish_score == _calculate_spanish_score(features)
             total == RAdd(shuar_score, spanish_score)
             detected_language ==
                 IF RLt(spanish_score, shuar_score) THEN "SHUAR" ELSE "SPANISH"
             winner == IF RLt(spanish_score, shuar_score) THEN shuar_score ELSE spanish_score
         IN  IF total = Zero THEN Raised("ZeroDivisionError")
             ELSE LET confidence == RDiv(winner, total)
                  IN  Returned([detected_language |-> detected_language,
                                confidence |-> confidence,
                                confidence_level |-> _get_confidence_level(confidence),
                                features_detected |-> features,
                                shuar_score |-> shuar_score,
                                spanish_score |-> spanish_score])

\* faulty variant: a tie of the two scores goes to Shuar
DetectLanguageTiesToShuar(text0) ==
    IF text0 = <<>> \/ Strip(text0) = <<>> THEN Raised("ValidationError")
    ELSE LET text == Strip(Lower(text0))
             features == _analyze_features(text)
             shuar_score == _calculate_shuar_score(features)
             spanish_score == _calculate_spanish_score(features)
             total == RAdd(shuar_score, spanish_score)
             detected_language ==
                 IF RLe(spanish_score, shuar_score) THEN "SHUAR" ELSE "SPANISH"
             winner == IF RLe(spanish_score, shuar_score) THEN shuar_score ELSE spanish_score
         IN  IF total = Zero THEN Raised("ZeroDivisionError")
             ELSE LET confidence == RDiv(winner, total)
                  IN  Returned([detected_language |-> detected_language,
                                confidence |-> confidence,
                                confidence_level |-> _get_confidence_level(confidence),
                                features_detected |-> features,
                                shuar_score |-> shuar_score,
                                spanish_score |-> spanish_score])

detect_language(text0) ==
    IF text0 = <<>> \/ Strip(text0) = <<>> THEN Raised("ValidationError")
    ELSE LET text == Strip(Lower(text0))
             features == _analyze_features(text)
             shuar_score == _calculate_shuar_score(features)
             spanish_score == _calculate_spanish_score(features)
             total == RAdd(shuar_score, spanish_score)
             detected_language ==
                 IF RLt(spanish_score, shuar_score) THEN "SHUAR" ELSE "SPANISH"
             winner == IF RLt(spanish_score, shuar_score) THEN shuar_score ELSE spanish_score
         IN  IF total = Zero THEN Raised("ZeroDivisionError")
             ELSE LET confidence == RDiv(winner, total)
                  IN  Returned([detected_language |-> detected_language,
                                confidence |-> confidence,
                                confidence_level |-> _get_confidence_level(confidence),
                                features_detected |-> features,
                                shuar_score |-> shuar_score,
                                spanish_score |-> spanish_score])

(***************************************************************************)
(* One call of detect_language on a text made of up to MaxChunks pieces.   *)
(***************************************************************************)
MaxChunks == 3

TextChunks ==
    { <<"a">>, <<"o">>, <<"a'">>, <<"a:">>, <<"u:">>, <<"x">>, <<" ">>, <<"A">>,
      <<"c", "h">>, <<"l", "l">>, <<"y", "a", "w", "a">>, <<"c", "a", "s", "a">>, <<"t", "a", "k", "u", "n", "i">>, <<"-", "n", "i">> }

Texts == {Concat(cs) : cs \in SeqsUpTo(TextChunks, MaxChunks)}

InitDetect ==
    /\ pc = "ready"
    /\ ret = NoReturn
    /\ \E t \in Texts : args = [op |-> "detect_language", text |-> t]

DetectLanguage ==
    /\ pc = "ready"
    /\ args.op = "detect_language"
    /\ ret' = detect_language(args.text)
    /\ pc' = "done"
    /\ UNCHANGED args

NextDetect == DetectLanguage

SpecDetect == InitDetect /\ [][NextDetect]_vars

DetectDone == pc = "done" /\ args.op = "detect_language"

DetectReturned == DetectDone /\ ret.kind = "returned"

\* C2 (as stated): detect_language is total on well-formed input: for every text
\* that is non-empty after trimming it returns a result and never raises, every
\* division by a possibly-zero denominator (shuar_score + spanish_score included)
\* yielding a fallback value.
C2_DetectTotal ==
    (DetectDone /\ Strip(args.text) # <<>>) => ret.kind = "returned"

\* C3: whenever detect_language returns, its confidence lies in (0, 1].
C3_ConfidenceRange ==
    DetectReturned =>
        /\ RLt(Zero, ret.value.confidence)
        /\ RLe(ret.value.confidence, One)

C3_Witness ==
    /\ DetectReturned
    /\ ret.value.detected_language = "SHUAR"
    /\ RLt(Zero, ret.value.spanish_score)
    /\ RLt(Half, ret.value.confidence)
    /\ RLt(ret.value.confidence, One)

\* C4 (as stated): the tier is high iff confidence > 0.8, medium iff
\* 0.5 <= confidence <= 0.8, low iff confidence < 0.5; so a confidence of exactly
\* 0.5 is medium, not low.
C4_TierBuckets ==
    DetectReturned =>
        LET c == ret.value.confidence
            level == ret.value.confidence_level
        IN  /\ level = "HIGH" <=> RLt(Rat(8, 10), c)
            /\ level = "MEDIUM" <=> (RLe(Rat(5, 10), c) /\ RLe(c, Rat(8, 10)))
            /\ level = "LOW" <=> RLt(c, Rat(5, 10))

\* C13: detect_language raises ValidationError for the empty string and for any
\* text that is empty after trimming whitespace, and produces no result then.
C13_BlankTextRejected ==
    (DetectDone /\ Strip(args.text) = <<>>) => ret = Raised("ValidationError")

C13_Witness ==
    /\ DetectDone
    /\ Len(args.text) > 1
    /\ Strip(args.text) = <<>>
    /\ ret = Raised("ValidationError")

\* C18: in detect_language the winner is the language with the higher score, a
\* tie goes to Spanish (Shuar only when shuar_score > spanish_score strictly),
\* and the confidence equals winner_score / (shuar_score + spanish_score).
C18_WinnerAndConfidence ==
    DetectReturned =>
        LET shuar == ret.value.shuar_score
            spanish == ret.value.spanish_score
        IN  /\ ret.value.detected_language = "SHUAR" <=> RLt(spanish, shuar)
            /\ ret.value.detected_language = "SPANISH" <=> RLe(shuar, spanish)
            /\ ret.value.confidence = RDiv(RMax(shuar, spanish), RAdd(shuar, spanish))

C18_Witness ==
    /\ DetectReturned
    /\ ret.value.shuar_score = ret.value.spanish_score
    /\ ret.value.detected_language = "SPANISH"
    /\ ret.value.confidence = Half

(***************************************************************************)
(* Phonological Feature Extractor (phonological_analysis_service.py)       *)
(***************************************************************************)
ORAL_VOWELS == {"a", "e", "i", "u"}
NASAL_VOWELS == {"a'", "e'", "i'", "u'"}
LARYNGEALIZED_VOWELS == {"a:", "e:", "i:", "u:"}
ALL_VOWELS == ORAL_VOWELS \cup NASAL_VOWELS \cup LARYNGEALIZED_VOWELS
CONSONANTS == {"p", "t", "k", "s", "j", "m", "n", "r", "w", "y"}
DIGRAPHS == {<<"c", "h">>, <<"s", "h">>, <<"t", "s">>}

\* DIGRAPHS is a Python set of str: the order in which a for loop visits it is
\* fixed within a process and differs between processes (hash randomisation)
DigraphOrders ==
    {o \in [1..3 -> DIGRAPHS] : \A i, j \in 1..3 : i # j => o[i] # o[j]}

\* the IPA symbols: a~ is nasal a, ? the glottal stop, esh and flap the IPA letters
\* IPA_MAPPINGS with the entry for y left out
IpaMappingsWithoutY(key) ==
    CASE key = <<"a'">> -> <<"a~">>
      [] key = <<"e'">> -> <<"e~">>
      [] key = <<"i'">> -> <<"i~">>
      [] key = <<"u'">> -> <<"u~">>
      [] key = <<"a:">> -> <<"a", "?">>
      [] key = <<"e:">> -> <<"e", "?">>
      [] key = <<"i:">> -> <<"i", "?">>
      [] key = <<"u:">> -> <<"u", "?">>
      [] key = <<"j">> -> <<"h">>
      [] key = <<"r">> -> <<"flap">>
      [] key = <<"c", "h">> -> <<"t", "esh">>
      [] key = <<"s", "h">> -> <<"esh">>
      [] key = <<"t", "s">> -> <<"t", "s">>
      [] OTHER -> key

IPA_MAPPINGS(key) ==
    CASE key = <<"a'">> -> <<"a~">>
      [] key = <<"e'">> -> <<"e~">>
      [] key = <<"i'">> -> <<"i~">>
      [] key = <<"u'">> -> <<"u~">>
      [] key = <<"a:">> -> <<"a", "?">>
      [] key = <<"e:">> -> <<"e", "?">>
      [] key = <<"i:">> -> <<"i", "?">>
      [] key = <<"u:">> -> <<"u", "?">>
      [] key = <<"j">> -> <<"h">>
      [] key = <<"r">> -> <<"flap">>
      [] key = <<"y">> -> <<"j">>
      [] key = <<"c", "h">> -> <<"t", "esh">>
      [] key = <<"s", "h">> -> <<"esh">>
      [] key = <<"t", "s">> -> <<"t", "s">>
      [] OTHER -> key

_detect_vocal_types(word) ==
    (IF Chars(word) \cap ORAL_VOWELS # {} THEN {"ORAL"} ELSE {})
    \cup (IF Chars(word) \cap NASAL_VOWELS # {} THEN {"NASAL"} ELSE {})
    \cup (IF Chars(word) \cap LARYNGEALIZED_VOWELS # {} THEN {"LARYNGEALIZED"} ELSE {})

RECURSIVE Repeat(_, _)
Repeat(x, n) == IF n = 0 THEN <<>> ELSE <<x>> \o Repeat(x, n - 1)

RECURSIVE DetectDigraphsFrom(_, _, _)
DetectDigraphsFrom(word, order, k) ==
    IF k > Len(order) THEN <<>>
    ELSE Repeat(order[k], Count(word, order[k])) \o DetectDigraphsFrom(word, order, k + 1)

_detect_digraphs(word, order) == DetectDigraphsFrom(word, order, 1)

\* the word with every digraph replaced by X, one digraph of the inventory at a time
RECURSIVE ReplaceDigraphs(_, _, _)
ReplaceDigraphs(word, order, k) ==
    IF k > Len(order) THEN word
    ELSE ReplaceDigraphs(Replace(word, order[k], "X"), order, k + 1)

IsClusterChar(c) == c \in CONSONANTS \/ c = "X"

\* the maximal runs of consonants and X of length at least two, in order
RECURSIVE ClustersFrom(_, _)
ClustersFrom(temp_word, current_cluster) ==
    IF temp_word = <<>>
    THEN (IF Len(current_cluster) > 1 THEN <<current_cluster>> ELSE <<>>)
    ELSE IF IsClusterChar(Head(temp_word))
         THEN ClustersFrom(Tail(temp_word), Append(current_cluster, Head(temp_word)))
         ELSE (IF Len(current_cluster) > 1 THEN <<current_cluster>> ELSE <<>>)
              \o ClustersFrom(Tail(temp_word), <<>>)

_detect_consonant_clusters(word, order) ==
    ClustersFrom(ReplaceDigraphs(word, order, 1), <<>>)

\* faulty variant: the vowel-run count without its floor of one syllable
CountSyllablesNoFloor(word, order) ==
    LET temp_word == ReplaceDigraphs(word, order, 1)
    IN  Cardinality({i \in 1..Len(temp_word) :
                        /\ temp_word[i] \in ALL_VOWELS
                        /\ (i = 1 \/ temp_word[i - 1] \notin ALL_VOWELS)})

_count_syllables(word, order) ==
    LET temp_word == ReplaceDigraphs(word, order, 1)
        vowel_count ==
            Cardinality({i \in 1..Len(temp_word) :
                            /\ temp_word[i] \in ALL_VOWELS
                            /\ (i = 1 \/ temp_word[i - 1] \notin ALL_VOWELS)})
    IN  IF vowel_count < 1 THEN 1 ELSE vowel_count

RECURSIVE PatternOf(_)
PatternOf(temp_word) ==
    IF temp_word = <<>> THEN <<>>
    ELSE (IF Head(temp_word) \in ALL_VOWELS THEN <<"V">>
          ELSE IF IsClusterChar(Head(temp_word)) THEN <<"C">>
          ELSE <<>>)
         \o PatternOf(Tail(temp_word))

_analyze_syllable_pattern(word, order) == PatternOf(ReplaceDigraphs(word, order, 1))

\* faulty variant: no extra complexity for laryngealized vowels
ComplexityNoLaryngealBonus(vocal_types, digraphs, clusters, syllable_count) ==
    RMin(RSum(<< RMin(Rat(syllable_count, 10), Rat(3, 10)),
                 Rat(Cardinality(vocal_types), 10),
                 Rat(Len(digraphs), 10),
                 Rat(15 * Len(clusters), 100) >>),
         One)

_calculate_phonological_complexity(vocal_types, digraphs, clusters, syllable_count) ==
    RMin(RSum(<< RMin(Rat(syllable_count, 10), Rat(3, 10)),
                 Rat(Cardinality(vocal_types), 10),
                 Rat(Len(digraphs), 10),
                 Rat(15 * Len(clusters), 100),
                 IF "LARYNGEALIZED" \in vocal_types THEN Rat(2, 10) ELSE Zero >>),
         One)

\* faulty variant: only the empty string is rejected, not a blank word
AnalyzeWordEmptyOnly(shuar_word, order) ==
    IF shuar_word = <<>> THEN Raised("ValidationError")
    ELSE LET word == Strip(Lower(shuar_word))
             vocal_types == _detect_vocal_types(word)
             digraphs_present == _detect_digraphs(word, order)
             consonant_clusters == _detect_consonant_clusters(word, order)
             syllable_count == _count_syllables(word, order)
         IN  Returned([vocal_types |-> vocal_types,
                       has_digraphs |-> Len(digraphs_present) > 0,
                       digraphs_present |-> digraphs_present,
                       consonant_clusters |-> consonant_clusters,
                       syllable_count |-> syllable_count,
                       syllable_pattern |-> _analyze_syllable_pattern(word, order),
                       phonological_complexity |->
                           _calculate_phonological_complexity(
                               vocal_types, digraphs_present, consonant_clusters,
                               syllable_count)])

analyze_word(shuar_word, order) ==
    IF shuar_word = <<>> \/ Strip(shuar_word) = <<>> THEN Raised("ValidationError")
    ELSE LET word == Strip(Lower(shuar_word))
             vocal_types == _detect_vocal_types(word)
             digraphs_present == _detect_digraphs(word, order)
             consonant_clusters == _detect_consonant_clusters(word, order)
             syllable_count == _count_syllables(word, order)
         IN  Returned([vocal_types |-> vocal_types,
                       has_digraphs |-> Len(digraphs_present) > 0,
                       digraphs_present |-> digraphs_present,
                       consonant_clusters |-> consonant_clusters,
                       syllable_count |-> syllable_count,
                       syllable_pattern |-> _analyze_syllable_pattern(word, order),
                       phonological_complexity |->
                           _calculate_phonological_complexity(
                               vocal_types, digraphs_present, consonant_clusters,
                               syllable_count)])

RECURSIVE Transcribe(_)
Transcribe(word) ==
    IF word = <<>> THEN <<>>
    ELSE IF Len(word) > 1 /\ SubSeq(word, 1, 2) \in DIGRAPHS
         THEN IPA_MAPPINGS(SubSeq(word, 1, 2)) \o Transcribe(SubSeq(word, 3, Len(word)))
         ELSE IPA_MAPPINGS(<<Head(word)>>) \o Transcribe(Tail(word))

generate_ipa_transcription(shuar_word) ==
    IF shuar_word = <<>> THEN <<>> ELSE Transcribe(Strip(Lower(shuar_word)))

create_phonological_info(shuar_word, order) ==
    LET analysis == analyze_word(shuar_word, order)
        features == analysis.value
    IN  IF analysis.kind = "raised" THEN analysis
        ELSE IF generate_ipa_transcription(shuar_word) = <<>>
             THEN Raised("ValidationError")
             ELSE Returned([ipa_transcription |-> generate_ipa_transcription(shuar_word),
                            has_nasal_vowels |-> "NASAL" \in features.vocal_types,
                            has_laryngealized_vowels |->
                                "LARYNGEALIZED" \in features.vocal_types,
                            vocal_types_present |-> features.vocal_types,
                            number_of_syllables |-> features.syllable_count,
                            syllable_pattern |-> features.syllable_pattern])

Min3(a, b, c) == IF a <= b /\ a <= c THEN a ELSE IF b <= c THEN b ELSE c

\* row i of the Levenshtein matrix from row i-1 (prev), for the character c of s1;
\* row holds the entries matrix[i][0..j-1] computed so far
RECURSIVE LevRow(_, _, _, _)
LevRow(prev, c, s2, row) ==
    IF Len(row) = Len(s2) + 1 THEN row
    ELSE LET j == Len(row)
             cost == IF c = s2[j] THEN 0 ELSE 1
         IN  LevRow(prev, c, s2,
                    Append(row, Min3(prev[j + 1] + 1, row[j] + 1, prev[j] + cost)))

RECURSIVE LevRows(_, _, _)
LevRows(s1, s2, prev) ==
    IF s1 = <<>> THEN prev
    ELSE LevRows(Tail(s1), s2, LevRow(prev, Head(s1), s2, <<prev[1] + 1>>))

\* matrix[len1][len2]
LevenshteinDistance(s1, s2) ==
    LevRows(s1, s2, [j \in 1..Len(s2) + 1 |-> j - 1])[Len(s2) + 1]

Max(a, b) == IF a >= b THEN a ELSE b

\* faulty variant: the distance scaled by the length of the first string, not of the longer
LevenshteinSimilarityByFirst(s1, s2) ==
    IF s1 = s2 THEN One
    ELSE IF s1 = <<>> \/ s2 = <<>> THEN Zero
    ELSE RSub(One, Rat(LevenshteinDistance(s1, s2), Len(s1)))

_levenshtein_similarity(s1, s2) ==
    IF s1 = s2 THEN One
    ELSE IF s1 = <<>> \/ s2 = <<>> THEN Zero
    ELSE LET max_len == Max(Len(s1), Len(s2))
         IN  IF max_len > 0 THEN RSub(One, Rat(LevenshteinDistance(s1, s2), max_len))
             ELSE Zero

\* faulty variant: two words without any vowel get vocal-type similarity 0
VocalTypeSimilarityNoEmptyCase(types1, types2) ==
    IF types1 \cup types2 # {}
    THEN Rat(Cardinality(types1 \cap types2), Cardinality(types1 \cup types2))
    ELSE Zero

_calculate_vocal_type_similarity(types1, types2) ==
    IF types1 = {} /\ types2 = {} THEN One
    ELSE IF types1 \cup types2 # {}
         THEN Rat(Cardinality(types1 \cap types2), Cardinality(types1 \cup types2))
         ELSE Zero

_calculate_syllable_similarity(count1, count2) ==
    IF count1 = count2 THEN One
    ELSE RMax(Zero, RSub(One, Rat(Abs(count1 - count2), Max(count1, count2))))

_calculate_pattern_similarity(pattern1, pattern2) ==
    IF pattern1 = pattern2 THEN One
    ELSE IF pattern1 = <<>> \/ pattern2 = <<>> THEN Zero
    ELSE _levenshtein_similarity(pattern1, pattern2)

_calculate_sound_similarity(word1, word2) ==
    _levenshtein_similarity(generate_ipa_transcription(word1),
                            generate_ipa_transcription(word2))

calculate_phonological_similarity(word1, word2, order) ==
    IF word1 = <<>> \/ word2 = <<>> THEN Returned(Zero)
    ELSE LET analysis1 == analyze_word(word1, order)
             analysis2 == analyze_word(word2, order)
             features1 == analysis1.value
             features2 == analysis2.value
         IN  IF analysis1.kind = "raised" THEN analysis1
             ELSE IF analysis2.kind = "raised" THEN analysis2
             ELSE Returned(RMin(
                 RSum(<< RMul(_calculate_vocal_type_similarity(
                                  features1.vocal_types, features2.vocal_types),
                              Rat(3, 10)),
                         RMul(_calculate_syllable_similarity(
                                  features1.syllable_count, features2.syllable_count),
                              Rat(2, 10)),
                         RMul(_calculate_pattern_similarity(
                                  features1.syllable_pattern, features2.syllable_pattern),
                              Rat(25, 100)),
                         RMul(_calculate_sound_similarity(word1, word2), Rat(25, 100)) >>),
                 One))

(***************************************************************************)
(* One call of analyze_word, generate_ipa_transcription or                 *)
(* calculate_phonological_similarity in a process whose digraph set is     *)
(* visited in digraph_order.                                               *)
(***************************************************************************)
MaxWordLen == 3
MaxPieces == 2

WordChars == {"a", "a'", "a:", "t", "s", "h", "c", "j", "y", " ", "A"}

AnalysisWords == SeqsUpTo(WordChars, MaxWordLen)

\* the words compared with each other: built from up to MaxPieces of these pieces
WordPieces == {<<"a">>, <<"a:">>, <<"t", "s">>, <<" ">>}

SimilarityWords == {Concat(ps) : ps \in SeqsUpTo(WordPieces, MaxPieces)}

InitPhon ==
    /\ pc = "ready"
    /\ ret = NoReturn
    /\ \/ \E w \in AnalysisWords, o \in DigraphOrders :
             args = [op |-> "analyze_word", shuar_word |-> w, digraph_order |-> o]
       \/ \E w \in AnalysisWords :
             args = [op |-> "generate_ipa_transcription", shuar_word |-> w]
       \/ \E w1 \in SimilarityWords, w2 \in SimilarityWords, o \in DigraphOrders :
             args = [op |-> "calculate_phonological_similarity",
                     word1 |-> w1, word2 |-> w2, digraph_order |-> o]

AnalyzeWord ==
    /\ pc = "ready"
    /\ args.op = "analyze_word"
    /\ ret' = analyze_word(args.shuar_word, args.digraph_order)
    /\ pc' = "done"
    /\ UNCHANGED args

GenerateIpaTranscription ==
    /\ pc = "ready"
    /\ args.op = "generate_ipa_transcription"
    /\ ret' = Returned(generate_ipa_transcription(args.shuar_word))
    /\ pc' = "done"
    /\ UNCHANGED args

CalculatePhonologicalSimilarity ==
    /\ pc = "ready"
    /\ args.op = "calculate_phonological_similarity"
    /\ ret' = calculate_phonological_similarity(args.word1, args.word2, args.digraph_order)
    /\ pc' = "done"
    /\ UNCHANGED args

NextPhon ==
    \/ AnalyzeWord
    \/ GenerateIpaTranscription
    \/ CalculatePhonologicalSimilarity

SpecPhon == InitPhon /\ [][NextPhon]_vars

SimilarityDone == pc = "done" /\ args.op = "calculate_phonological_similarity"

\* C5 (as stated): for all words w, calculate_phonological_similarity(w, w) = 1.0.
C5_Identity ==
    (SimilarityDone /\ args.word1 = args.word2) => ret = Returned(One)

\* C5 (amended): for all words w that are non-empty after trimming,
\* calculate_phonological_similarity(w, w) = 1.0; for the empty word it returns 0.0
\* and for a whitespace-only word it raises ValidationError.
C5_IdentityNonBlank ==
    (SimilarityDone /\ args.word1 = args.word2) =>
        IF Strip(args.word1) # <<>> THEN ret = Returned(One)
        ELSE IF args.word1 = <<>> THEN ret = Returned(Zero)
        ELSE ret = Raised("ValidationError")

C5_Witness ==
    /\ SimilarityDone
    /\ args.word1 = args.word2
    /\ Len(Strip(args.word1)) > 1
    /\ _detect_vocal_types(args.word1) = {}
    /\ ret = Returned(One)

\* C6: calculate_phonological_similarity(w1, w2) and (w2, w1) agree (the same value,
\* or both raise) and every returned value lies in [0.0, 1.0].
C6_SymmetricInRange ==
    SimilarityDone =>
        LET swapped == calculate_phonological_similarity(
                           args.word2, args.word1, args.digraph_order)
        IN  /\ ret.kind = swapped.kind
            /\ ret.kind = "returned" =>
                   /\ ret.value = swapped.value
                   /\ RLe(Zero, ret.value)
                   /\ RLe(ret.value, One)

C6_Witness ==
    /\ SimilarityDone
    /\ ret.kind = "returned"
    /\ Len(Strip(args.word1)) < Len(Strip(args.word2))
    /\ Strip(args.word1) # <<>>
    /\ RLt(Zero, ret.value)
    /\ RLt(ret.value, One)

IpaDone == pc = "done" /\ args.op = "generate_ipa_transcription"

\* C8 (as stated): generate_ipa_transcription is idempotent:
\* transcribe(transcribe(w)) = transcribe(w) for every word w.
C8_Idempotent ==
    IpaDone => generate_ipa_transcription(ret.value) = ret.value

\* the word contains "j" right after "c" or "s"
HasHardenedJ(word) ==
    \E i \in 1..Len(word) - 1 : word[i] \in {"c", "s"} /\ word[i + 1] = "j"

\* C8 (amended): transcribe(transcribe(w)) = transcribe(w) for every word w that
\* contains no y and no j directly after c or s; a y is transcribed to j, which a
\* second transcription turns into h, so no word containing y is a fixed point.
C8_IdempotentWithoutY ==
    IpaDone =>
        LET word == Strip(Lower(args.shuar_word))
        IN  /\ ("y" \notin Chars(word) /\ ~HasHardenedJ(word))
                   => generate_ipa_transcription(ret.value) = ret.value
            /\ "y" \in Chars(word) => generate_ipa_transcription(ret.value) # ret.value

C8_Witness ==
    /\ IpaDone
    /\ <<"t", "s">> \in {SubSeq(args.shuar_word, i, i + 1) : i \in 1..Len(args.shuar_word) - 1}
    /\ "a:" \in Chars(args.shuar_word)
    /\ generate_ipa_transcription(ret.value) = ret.value
    /\ ret.value # args.shuar_word

AnalyzeReturned == pc = "done" /\ args.op = "analyze_word" /\ ret.kind = "returned"

\* the oral counterpart of a laryngealized vowel
PlainVowel(c) ==
    CASE c = "a:" -> "a" [] c = "e:" -> "e" [] c = "i:" -> "i" [] c = "u:" -> "u"
      [] OTHER -> c

\* the positions of the laryngealized vowels of the analysed word
LaryngealizedAt(word) == {i \in 1..Len(word) : word[i] \in LARYNGEALIZED_VOWELS}

\* the complexity of the word with the vowel at position i made plain
PlainComplexity(word, i) ==
    analyze_word([word EXCEPT ![i] = PlainVowel(word[i])],
                 args.digraph_order).value.phonological_complexity

\* C9 (as stated): a word with a laryngealized vowel is reported laryngealized and
\* its complexity is exactly 0.2 above that of the same word with that vowel
\* replaced by its plain oral counterpart.
C9_LaryngealBonus ==
    AnalyzeReturned =>
        \A i \in LaryngealizedAt(Strip(Lower(args.shuar_word))) :
            /\ "LARYNGEALIZED" \in ret.value.vocal_types
            /\ ret.value.phonological_complexity =
                   RAdd(PlainComplexity(Strip(Lower(args.shuar_word)), i), Rat(2, 10))

\* C9 (amended): a word with a laryngealized vowel is reported laryngealized; with
\* that vowel replaced by its oral counterpart the complexity (when neither value
\* is clamped at 1.0) drops by 0.2 if it was the only laryngealized vowel and the
\* word has no oral vowel, by 0.3 if it was the only one and the word has an oral
\* vowel (one vocal type fewer), and otherwise does not drop (0, or a rise of 0.1
\* when the replacement adds the oral type).
C9_LaryngealBonusAndDiversity ==
    AnalyzeReturned =>
        LET word == Strip(Lower(args.shuar_word))
            c == ret.value.phonological_complexity
            oral == "ORAL" \in ret.value.vocal_types
        IN  \A i \in LaryngealizedAt(word) :
                /\ "LARYNGEALIZED" \in ret.value.vocal_types
                /\ (RLt(c, One) /\ RLt(PlainComplexity(word, i), One)) =>
                       c = RAdd(PlainComplexity(word, i),
                                IF LaryngealizedAt(word) = {i}
                                THEN (IF oral THEN Rat(3, 10) ELSE Rat(2, 10))
                                ELSE (IF oral THEN Zero ELSE Rat(-1, 10)))

C9_Witness ==
    /\ AnalyzeReturned
    /\ Len(args.shuar_word) > 1
    /\ Cardinality(LaryngealizedAt(args.shuar_word)) = 1
    /\ "ORAL" \notin ret.value.vocal_types
    /\ \A i \in LaryngealizedAt(args.shuar_word) :
           ret.value.phonological_complexity =
               RAdd(PlainComplexity(args.shuar_word, i), Rat(2, 10))

\* C12: every PhonologicalFeatures value returned by analyze_word has
\* syllable_count >= 1, a syllable_pattern made only of the letters C and V, and
\* phonological_complexity in [0.0, 1.0].
C12_FeaturesWellFormed ==
    AnalyzeReturned =>
        /\ ret.value.syllable_count >= 1
        /\ \A i \in 1..Len(ret.value.syllable_pattern) :
               ret.value.syllable_pattern[i] \in {"C", "V"}
        /\ RLe(Zero, ret.value.phonological_complexity)
        /\ RLe(ret.value.phonological_complexity, One)

C12_Witness ==
    /\ AnalyzeReturned
    /\ Chars(args.shuar_word) \cap ALL_VOWELS = {}
    /\ ret.value.has_digraphs
    /\ ret.value.syllable_count = 1
    /\ ret.value.syllable_pattern # <<>>

\* C15 (as stated): analyze_word, generate_ipa_transcription and
\* calculate_phonological_similarity each raise ValidationError, and return no
\* value, when a word argument is empty or whitespace-only.
C15_BlankFailsFast ==
    pc = "done" =>
        /\ (args.op \in {"analyze_word", "generate_ipa_transcription"}
             /\ Strip(args.shuar_word) = <<>>) => ret = Raised("ValidationError")
        /\ (args.op = "calculate_phonological_similarity"
             /\ (Strip(args.word1) = <<>> \/ Strip(args.word2) = <<>>))
                => ret = Raised("ValidationError")

\* C15 (amended): analyze_word raises ValidationError for an empty or
\* whitespace-only word; generate_ipa_transcription returns the empty string
\* for such a word; calculate_phonological_similarity returns 0.0 when either
\* word is the empty string and otherwise raises ValidationError when either
\* word is whitespace-only.
C15_BlankHandling ==
    pc = "done" =>
        /\ (args.op = "analyze_word" /\ Strip(args.shuar_word) = <<>>)
                => ret = Raised("ValidationError")
        /\ (args.op = "generate_ipa_transcription" /\ Strip(args.shuar_word) = <<>>)
                => ret = Returned(<<>>)
        /\ (args.op = "calculate_phonological_similarity"
             /\ (Strip(args.word1) = <<>> \/ Strip(args.word2) = <<>>))
                => IF args.word1 = <<>> \/ args.word2 = <<>>
                   THEN ret = Returned(Zero)
                   ELSE ret = Raised("ValidationError")

C15_Witness ==
    /\ SimilarityDone
    /\ Strip(args.word1) # <<>>
    /\ args.word2 # <<>>
    /\ Strip(args.word2) = <<>>
    /\ ret = Raised("ValidationError")

\* C17: analyze_word is a deterministic function of the word: its syllable_count,
\* syllable_pattern, consonant_clusters and digraphs_present are the same
\* whatever the order in which the digraphs ch, sh, ts of the inventory are
\* visited when they are counted and replaced by the placeholder.
C17_OrderIndependent ==
    AnalyzeReturned =>
        \A order \in DigraphOrders :
            LET other == analyze_word(args.shuar_word, order).value
            IN  /\ other.syllable_count = ret.value.syllable_count
                /\ other.syllable_pattern = ret.value.syllable_pattern
                /\ other.consonant_clusters = ret.value.consonant_clusters
                /\ other.digraphs_present = ret.value.digraphs_present

(***************************************************************************)
(* SimilarityScore value object (value_objects/similarity_score.py).       *)
(***************************************************************************)

SimilarityScore(phonological_similarity, morphological_similarity, semantic_similarity, overall_similarity) ==
    [phonological_similarity |-> phonological_similarity,
     morphological_similarity |-> morphological_similarity,
     semantic_similarity |-> semantic_similarity,
     overall_similarity |-> overall_similarity]

\* phonological * 0.4 + morphological * 0.3 + semantic * 0.3
WeightedOverall(phonological, morphological, semantic) ==
    RAdd(RAdd(RMul(phonological, Rat(4, 10)), RMul(morphological, Rat(3, 10))),
         RMul(semantic, Rat(3, 10)))

\* a __post_init__ that skips the range check of the overall score
PostInitUncheckedOverall(self) ==
    IF \E score \in {self.phonological_similarity, self.morphological_similarity,
                     self.semantic_similarity} :
           ~(RLe(Zero, score) /\ RLe(score, One))
    THEN Raised("ValidationError")
    ELSE IF RLt(Rat(1, 10),
                RAbs(RSub(self.overall_similarity,
                          WeightedOverall(self.phonological_similarity,
                                          self.morphological_similarity,
                                          self.semantic_similarity))))
    THEN Raised("ValidationError")
    ELSE Returned(self)

\* SimilarityScore.__post_init__: the constructed value, or the error raised
__post_init__(self) ==
    IF \E score \in {self.phonological_similarity, self.morphological_similarity,
                     self.semantic_similarity, self.overall_similarity} :
           ~(RLe(Zero, score) /\ RLe(score, One))
    THEN Raised("ValidationError")
    ELSE IF RLt(Rat(1, 10),
                RAbs(RSub(self.overall_similarity,
                          WeightedOverall(self.phonological_similarity,
                                          self.morphological_similarity,
                                          self.semantic_similarity))))
    THEN Raised("ValidationError")
    ELSE Returned(self)

\* SimilarityScore.create
create(phonological, morphological, semantic) ==
    __post_init__(SimilarityScore(phonological, morphological, semantic,
                                  WeightedOverall(phonological, morphological, semantic)))

(***************************************************************************)
(* SpecScore: one construction of a SimilarityScore, directly or by create *)
(***************************************************************************)

\* score arguments tried, with values outside [0, 1] on both sides
ScoreValues ==
    {Rat(-1, 10), Zero, Rat(2, 5), Half, Rat(3, 5), One, Rat(11, 10)}

InitScore ==
    /\ pc = "ready"
    /\ ret = NoReturn
    /\ \/ \E p \in ScoreValues, m \in ScoreValues, s \in ScoreValues, o \in ScoreValues :
              args = [op |-> "SimilarityScore", phonological |-> p,
                      morphological |-> m, semantic |-> s, overall |-> o]
       \/ \E p \in ScoreValues, m \in ScoreValues, s \in ScoreValues :
              args = [op |-> "create", phonological |-> p,
                      morphological |-> m, semantic |-> s]

ConstructSimilarityScore ==
    /\ pc = "ready"
    /\ args.op = "SimilarityScore"
    /\ ret' = __post_init__(SimilarityScore(args.phonological, args.morphological,
                                            args.semantic, args.overall))
    /\ pc' = "done"
    /\ UNCHANGED args

CreateSimilarityScore ==
    /\ pc = "ready"
    /\ args.op = "create"
    /\ ret' = create(args.phonological, args.morphological, args.semantic)
    /\ pc' = "done"
    /\ UNCHANGED args

NextScore == ConstructSimilarityScore \/ CreateSimilarityScore

SpecScore == InitScore /\ [][NextScore]_vars

InUnit(x) == RLe(Zero, x) /\ RLe(x, One)

\* the 0.4/0.3/0.3 consistency condition within tolerance 0.1
Consistent(p, m, s, o) ==
    RLe(RAbs(RSub(o, RAdd(RAdd(RMul(Rat(4, 10), p), RMul(Rat(3, 10), m)),
                          RMul(Rat(3, 10), s)))),
        Rat(1, 10))

\* C7: every SimilarityScore that exists has all four scores in [0,1] and
\* |overall - (0.4*phonological + 0.3*morphological + 0.3*semantic)| <= 0.1;
\* constructing one that violates either condition raises ValidationError; and
\* create(p, m, s) with p, m, s in [0,1] succeeds with overall = 0.4p + 0.3m + 0.3s.
C7_ScoreInvariant ==
    pc = "done" =>
        /\ ret.kind = "returned" =>
               /\ InUnit(ret.value.phonological_similarity)
               /\ InUnit(ret.value.morphological_similarity)
               /\ InUnit(ret.value.semantic_similarity)
               /\ InUnit(ret.value.overall_similarity)
               /\ Consistent(ret.value.phonological_similarity,
                             ret.value.morphological_similarity,
                             ret.value.semantic_similarity,
                             ret.value.overall_similarity)
        /\ (/\ args.op = "SimilarityScore"
            /\ ~(/\ InUnit(args.phonological) /\ InUnit(args.morphological)
                 /\ InUnit(args.semantic) /\ InUnit(args.overall)
                 /\ Consistent(args.phonological, args.morphological,
                               args.semantic, args.overall)))
               => ret = Raised("ValidationError")
        /\ (/\ args.op = "create"
            /\ InUnit(args.phonological) /\ InUnit(args.morphological)
            /\ InUnit(args.semantic))
               => /\ ret.kind = "returned"
                  /\ ret.value.overall_similarity =
                         RAdd(RAdd(RMul(Rat(4, 10), args.phonological),
                                   RMul(Rat(3, 10), args.morphological)),
                              RMul(Rat(3, 10), args.semantic))

C7_Witness ==
    /\ pc = "done"
    /\ args.op = "SimilarityScore"
    /\ ret.kind = "returned"
    /\ ret.value.overall_similarity = Rat(3, 5)
    /\ ret.value.phonological_similarity = Half
    /\ ret.value.morphological_similarity = Half
    /\ ret.value.semantic_similarity = Half

(***************************************************************************)
(* Similarity search service.  A Word is read through its shuar_text, its  *)
(* phonological_info and its morphological_info; both infos are optional.  *)
(***************************************************************************)
VocalType == {"ORAL", "NASAL", "LARYNGEALIZED"}

\* PhonologicalInfo: the transcription is required, the pattern is optional
PhonologicalInfo(ipa_transcription, vocal_types_present, number_of_syllables, syllable_pattern) ==
    [ipa_transcription |-> ipa_transcription, vocal_types_present |-> vocal_types_present,
     number_of_syllables |-> number_of_syllables, syllable_pattern |-> syllable_pattern]

MorphologicalInfo(applied_suffixes) == [applied_suffixes |-> applied_suffixes]

Word(shuar_text, phonological_info, morphological_info) ==
    [shuar_text |-> shuar_text, phonological_info |-> phonological_info,
     morphological_info |-> morphological_info]

\* the elements of a list, as set(list) collects them
ToSet(s) == {s[i] : i \in 1..Len(s)}

\* float('inf') and the int counts it is compared with
Infinity == [inf |-> TRUE, n |-> 0]
Finite(n) == [inf |-> FALSE, n |-> n]

\* differences <= max_differences: infinity is below no integer
DifferencesLe(differences, max_differences) ==
    ~differences.inf /\ differences.n <= max_differences

\* the count for two words that both carry phonological data (lines 376-399)
CountDifferences(info1, info2) ==
    LET types1 == ToSet(info1.vocal_types_present)
        types2 == ToSet(info2.vocal_types_present)
        ipa1 == info1.ipa_transcription
        ipa2 == info2.ipa_transcription
        max_len == Max(Len(ipa1), Len(ipa2))
        char_differences ==
            Cardinality({i \in 1..max_len :
                            i > Len(ipa1) \/ i > Len(ipa2) \/ ipa1[i] # ipa2[i]})
    IN  Cardinality((types1 \ types2) \cup (types2 \ types1))
        + (IF info1.number_of_syllables # info2.number_of_syllables THEN 1 ELSE 0)
        + char_differences

\* faulty variant: a pair without phonological data counts as no difference
CountDifferencesMissingAsNone(word1, word2) ==
    IF word1.phonological_info = None \/ word2.phonological_info = None THEN Finite(0)
    ELSE Finite(CountDifferences(Get(word1.phonological_info), Get(word2.phonological_info)))

_count_phonological_differences(word1, word2) ==
    IF word1.phonological_info = None \/ word2.phonological_info = None THEN Infinity
    ELSE Finite(CountDifferences(Get(word1.phonological_info), Get(word2.phonological_info)))

\* the loops of find_minimal_pairs from word i and its partner j on
RECURSIVE MinimalPairsFrom(_, _, _, _)
MinimalPairsFrom(words, max_differences, i, j) ==
    IF i > Len(words) THEN <<>>
    ELSE IF j > Len(words) THEN MinimalPairsFrom(words, max_differences, i + 1, i + 2)
    ELSE (IF DifferencesLe(_count_phonological_differences(words[i], words[j]),
                           max_differences)
          THEN << <<words[i], words[j]>> >>
          ELSE <<>>)
         \o MinimalPairsFrom(words, max_differences, i, j + 1)

find_minimal_pairs(words, max_differences) ==
    MinimalPairsFrom(words, max_differences, 1, 2)

\* sorted(vocal_types_present): VocalType is a plain Enum, whose members have
\* no ordering, so the first comparison of two elements raises TypeError
sorted_vocal_types(vocal_types_present) ==
    IF Len(vocal_types_present) >= 2 THEN Raised("TypeError")
    ELSE Returned(vocal_types_present)

\* f"{pattern}": a missing pattern is formatted as the text None
FormatPattern(syllable_pattern) ==
    IF syllable_pattern = None THEN <<"N", "o", "n", "e">> ELSE Get(syllable_pattern)

\* pattern_groups[pattern_key].append(word), the key created on first use
GroupAppend(pattern_groups, pattern_key, word) ==
    [k \in DOMAIN pattern_groups \cup {pattern_key} |->
        IF k # pattern_key THEN pattern_groups[k]
        ELSE IF pattern_key \in DOMAIN pattern_groups
             THEN Append(pattern_groups[pattern_key], word)
             ELSE <<word>>]

\* the loop of group_similar_words_by_pattern from word i on; a key is the
\* formatted pair of the pattern and the tuple of sorted vocal types
RECURSIVE GroupFrom(_, _, _)
GroupFrom(words, i, pattern_groups) ==
    IF i > Len(words) THEN Returned(pattern_groups)
    ELSE IF words[i].phonological_info = None THEN GroupFrom(words, i + 1, pattern_groups)
    ELSE LET info == Get(words[i].phonological_info)
             vocal_types == sorted_vocal_types(info.vocal_types_present)
             pattern_key == <<FormatPattern(info.syllable_pattern), vocal_types.value>>
         IN  IF vocal_types.kind = "raised" THEN vocal_types
             ELSE GroupFrom(words, i + 1, GroupAppend(pattern_groups, pattern_key, words[i]))

group_similar_words_by_pattern(words) == GroupFrom(words, 1, <<>>)

\* SearchCriteria, as far as find_similar_words reads it
SearchCriteria(min_similarity_threshold, max_results, include_morphological) ==
    [min_similarity_threshold |-> min_similarity_threshold, max_results |-> max_results,
     include_morphological |-> include_morphological]

\* SearchCriteria(): the defaults
DefaultSearchCriteria == SearchCriteria(Rat(3, 10), 10, TRUE)

common_suffixes ==
    {<<"-", "n", "i">>, <<"-", "a", "i">>, <<"-", "k", "a">>, <<"-", "m", "a">>,
     <<"-", "t", "a">>, <<"-", "n", "u">>, <<"-", "t", "u">>, <<"-", "c", "h", "i">>,
     <<"-", "t", "s", "u">>}

_extract_common_suffixes(word) ==
    {suffix \in common_suffixes : EndsWith(word, Tail(suffix))}

_calculate_morphological_similarity_score(target_word, candidate) ==
    IF candidate.morphological_info = None THEN Half
    ELSE LET target_suffixes == _extract_common_suffixes(target_word)
             candidate_suffixes == ToSet(Get(candidate.morphological_info).applied_suffixes)
             suffix_similarity ==
                 IF target_suffixes # {} \/ candidate_suffixes # {}
                 THEN Rat(Cardinality(target_suffixes \cap candidate_suffixes),
                          Cardinality(target_suffixes \cup candidate_suffixes))
                 ELSE Half
             target_len == Len(target_word)
             candidate_len == Len(candidate.shuar_text)
             max_len == Max(target_len, candidate_len)
             length_similarity ==
                 IF max_len > 0 THEN RSub(One, Rat(Abs(target_len - candidate_len), max_len))
                 ELSE One
         IN  RAdd(RMul(suffix_similarity, Rat(7, 10)), RMul(length_similarity, Rat(3, 10)))

\* the SimilarityScore of a candidate, or the exception of the analysis
ComprehensiveScore(phonological_sim, morphological_sim) ==
    IF phonological_sim.kind = "raised" THEN phonological_sim
    ELSE create(phonological_sim.value, morphological_sim, Half)

_calculate_comprehensive_similarity(target_word, candidate, criteria, order) ==
    ComprehensiveScore(
        calculate_phonological_similarity(target_word, candidate.shuar_text, order),
        IF criteria.include_morphological /\ candidate.morphological_info # None
        THEN _calculate_morphological_similarity_score(target_word, candidate)
        ELSE Half)

get_similarity_level(self) ==
    IF RLe(Rat(7, 10), self.overall_similarity) THEN "high"
    ELSE IF RLe(Rat(4, 10), self.overall_similarity) THEN "moderate"
    ELSE "low"

\* the explanation text, kept as its parts: the level, the quoted target and
\* the reasons joined by commas
_generate_similarity_explanation(target_word, candidate_word, similarity) ==
    LET explanations ==
            (IF RLt(Rat(7, 10), similarity.phonological_similarity)
             THEN <<"similar sound patterns">>
             ELSE IF RLt(Half, similarity.phonological_similarity)
                  THEN <<"some sound similarities">>
                  ELSE <<>>)
            \o (IF RLt(Rat(7, 10), similarity.morphological_similarity)
                THEN <<"similar word structure">>
                ELSE IF RLt(Half, similarity.morphological_similarity)
                     THEN <<"related morphological patterns">>
                     ELSE <<>>)
            \o (IF RLt(Rat(7, 10), similarity.semantic_similarity)
                THEN <<"related meaning">>
                ELSE <<>>)
    IN  [level |-> get_similarity_level(similarity), target_word |-> target_word,
         explanations |-> IF explanations = <<>> THEN <<"general linguistic patterns">>
                          ELSE explanations]

SimilarWord(word, similarity, explanation) ==
    [word |-> word, similarity |-> similarity, explanation |-> explanation]

\* one pass of the loop of find_similar_words (lines 52-74): the candidate is
\* skipped, or its similarity is computed and it is kept when it reaches the
\* threshold; rest is what the later passes leave
SimilarStep(target_word, candidate, criteria, similarity, rest) ==
    IF Lower(candidate.shuar_text) = target_word THEN rest
    ELSE IF similarity.kind = "raised" THEN similarity
    ELSE IF rest.kind = "raised" THEN rest
    ELSE IF RLe(criteria.min_similarity_threshold, similarity.value.overall_similarity)
         THEN Returned(
                  <<SimilarWord(candidate, similarity.value,
                                _generate_similarity_explanation(
                                    target_word, candidate.shuar_text, similarity.value))>>
                  \o rest.value)
         ELSE rest

\* the loop of find_similar_words from candidate i on: the survivors in
\* candidate order, or the first exception
RECURSIVE SimilarFrom(_, _, _, _, _)
SimilarFrom(target_word, candidate_words, criteria, order, i) ==
    IF i > Len(candidate_words) THEN Returned(<<>>)
    ELSE SimilarStep(target_word, candidate_words[i], criteria,
                     _calculate_comprehensive_similarity(target_word, candidate_words[i],
                                                         criteria, order),
                     SimilarFrom(target_word, candidate_words, criteria, order, i + 1))

\* list.sort(key = overall_similarity, reverse = True): stable, so equal scores
\* keep their order
RECURSIVE InsertDescending(_, _)
InsertDescending(sw, sorted) ==
    IF sorted = <<>> THEN <<sw>>
    ELSE IF RLe(Head(sorted).similarity.overall_similarity, sw.similarity.overall_similarity)
         THEN <<sw>> \o sorted
         ELSE <<Head(sorted)>> \o InsertDescending(sw, Tail(sorted))

RECURSIVE SortDescending(_)
SortDescending(similar_words) ==
    IF similar_words = <<>> THEN <<>>
    ELSE InsertDescending(Head(similar_words), SortDescending(Tail(similar_words)))

\* s[:n]
SliceTo(s, n) ==
    IF n >= 0 THEN SubSeq(s, 1, IF n < Len(s) THEN n ELSE Len(s))
    ELSE SubSeq(s, 1, IF Len(s) + n > 0 THEN Len(s) + n ELSE 0)

\* the two lists find_similar_words holds once its loop is done: the caller's
\* candidate_words and the local similar_words
SimilarWordLists(candidate_words, similar_words) ==
    [candidate_words |-> candidate_words, similar_words |-> similar_words]

\* faulty variant: the ranking is built in the caller's list
SortCandidateWords(lists) ==
    [lists EXCEPT !.similar_words = SortDescending(@),
                  !.candidate_words =
                      [i \in 1..Len(lists.similar_words) |->
                          SortDescending(lists.similar_words)[i].word]]

\* similar_words.sort(...) (lines 76-79): sorts the local list
SortSimilarWords(lists) == [lists EXCEPT !.similar_words = SortDescending(@)]

\* the end of find_similar_words up to its sort, given the analysis of the
\* target (line 48) and the outcome of the loop
ListsAfterSort(candidate_words, target_features, similar_words) ==
    IF target_features.kind = "raised" THEN target_features
    ELSE IF similar_words.kind = "raised" THEN similar_words
    ELSE Returned(SortSimilarWords(SimilarWordLists(candidate_words, similar_words.value)))

\* find_similar_words up to its sort: the lists it leaves, or its exception
FindSimilarWordsLists(target_word, candidate_words, criteria, order) ==
    IF target_word = <<>> \/ Strip(target_word) = <<>> THEN Raised("ValidationError")
    ELSE IF candidate_words = <<>> THEN Returned(SimilarWordLists(candidate_words, <<>>))
    ELSE ListsAfterSort(candidate_words,
                        analyze_word(Strip(Lower(target_word)), order),
                        SimilarFrom(Strip(Lower(target_word)), candidate_words,
                                    IF criteria = None THEN DefaultSearchCriteria
                                    ELSE Get(criteria),
                                    order, 1))

\* the value find_similar_words returns from those lists (line 82)
find_similar_words(lists, criteria) ==
    IF lists.kind = "raised" THEN lists
    ELSE Returned(SliceTo(lists.value.similar_words,
                          (IF criteria = None THEN DefaultSearchCriteria
                           ELSE Get(criteria)).max_results))

\* for min_syllables_match >= 0
_calculate_rhyme_similarity(word1, word2, features1, features2, min_syllables_match) ==
    LET min_len == IF Len(word1) < Len(word2) THEN Len(word1) ELSE Len(word2)
        max_match_len ==
            IF min_len < min_syllables_match * 2 THEN min_len ELSE min_syllables_match * 2
        matches ==
            Cardinality({k \in 1..max_match_len :
                            word1[Len(word1) - max_match_len + k]
                                = word2[Len(word2) - max_match_len + k]})
        similarity == Rat(matches, max_match_len)
    IN  IF max_match_len = 0 THEN Zero
        ELSE RMin(One, IF features1.syllable_count = features2.syllable_count
                       THEN RAdd(similarity, Rat(2, 10))
                       ELSE similarity)

\* the loop of find_rhyming_words from candidate i on
RECURSIVE RhymingFrom(_, _, _, _, _, _)
RhymingFrom(target_word, target_features, candidate_words, min_syllables_match, order, i) ==
    IF i > Len(candidate_words) THEN Returned(<<>>)
    ELSE LET candidate == candidate_words[i]
             candidate_features == analyze_word(candidate.shuar_text, order)
             rest == RhymingFrom(target_word, target_features, candidate_words,
                                 min_syllables_match, order, i + 1)
         IN  IF candidate_features.kind = "raised" THEN candidate_features
             ELSE IF rest.kind = "raised" THEN rest
             ELSE IF RLt(Rat(6, 10),
                         _calculate_rhyme_similarity(
                             target_word, candidate.shuar_text, target_features,
                             candidate_features.value, min_syllables_match))
                  THEN Returned(<<candidate>> \o rest.value)
                  ELSE rest

find_rhyming_words(target_word, candidate_words, min_syllables_match, order) ==
    IF target_word = <<>> THEN Returned(<<>>)
    ELSE LET target_word1 == Strip(Lower(target_word))
             target_features == analyze_word(target_word1, order)
         IN  IF target_features.kind = "raised" THEN target_features
             ELSE RhymingFrom(target_word1, target_features.value, candidate_words,
                              min_syllables_match, order, 1)

(***************************************************************************)
(* SpecSearch: one call of an operation of the similarity search service.  *)
(***************************************************************************)
MaxCandidates == 2

WordA == Word(<<"a">>, None, None)
WordAInfo == Word(<<"a">>, Some(PhonologicalInfo(<<"a">>, <<"ORAL">>, 1, Some(<<"V">>))), None)
WordTa ==
    Word(<<"t", "a">>, Some(PhonologicalInfo(<<"t", "a">>, <<"ORAL">>, 1, Some(<<"C", "V">>))),
         Some(MorphologicalInfo(<< <<"-", "t", "a">> >>)))
WordTwoTypes ==
    Word(<<"a:", "a">>,
         Some(PhonologicalInfo(<<"a:", "a">>, <<"NASAL", "ORAL">>, 2, Some(<<"V", "V">>))), None)
WordSpaceA == Word(<<" ", "a">>, None, None)
WordTs == Word(<<"t", "s">>, Some(PhonologicalInfo(<<"t", "s">>, <<>>, 0, None)), None)

\* the words grouped and paired, and the candidates searched
SearchWords == {WordA, WordAInfo, WordTa, WordTwoTypes, WordSpaceA, WordTs}
CandidateWords == {WordA, WordTa, WordTwoTypes, WordSpaceA}

WordLists == SeqsUpTo(SearchWords, MaxCandidates + 1)
CandidateLists == SeqsUpTo(CandidateWords, MaxCandidates)

SearchTargets == {<<"a">>, <<" ", "a">>, <<"A">>, <<" ">>}

SearchCriteriaValues ==
    {None, Some(SearchCriteria(Zero, 1, TRUE)), Some(SearchCriteria(Rat(13, 20), 2, FALSE)),
     Some(SearchCriteria(Zero, 0, TRUE))}

SearchOrders == {o \in DigraphOrders : o[3] = <<"c", "h">>}

InitSearch ==
    /\ pc = "ready"
    /\ ret = NoReturn
    /\ \/ \E t \in SearchTargets, cl \in CandidateLists, c \in SearchCriteriaValues,
             o \in SearchOrders :
             args = [op |-> "find_similar_words", target_word |-> t, candidate_words |-> cl,
                     criteria |-> c, digraph_order |-> o]
       \/ \E t \in SearchTargets \cup {<<>>}, cl \in CandidateLists, n \in 0..1,
             o \in SearchOrders :
             args = [op |-> "find_rhyming_words", target_word |-> t, candidate_words |-> cl,
                     min_syllables_match |-> n, digraph_order |-> o]
       \/ \E ws \in WordLists, d \in {-1, 0, 1, 3} :
             args = [op |-> "find_minimal_pairs", words |-> ws, max_differences |-> d]
       \/ \E ws \in WordLists :
             args = [op |-> "group_similar_words_by_pattern", words |-> ws]

FindSimilarWords ==
    /\ pc = "ready"
    /\ args.op = "find_similar_words"
    /\ \E lists \in {FindSimilarWordsLists(args.target_word, args.candidate_words,
                                            args.criteria, args.digraph_order)} :
          /\ ret' = find_similar_words(lists, args.criteria)
          /\ args' = [args EXCEPT !.candidate_words =
                         IF lists.kind = "raised" THEN @ ELSE lists.value.candidate_words]
    /\ pc' = "done"

FindRhymingWords ==
    /\ pc = "ready"
    /\ args.op = "find_rhyming_words"
    /\ ret' = find_rhyming_words(args.target_word, args.candidate_words,
                                 args.min_syllables_match, args.digraph_order)
    /\ pc' = "done"
    /\ UNCHANGED args

FindMinimalPairs ==
    /\ pc = "ready"
    /\ args.op = "find_minimal_pairs"
    /\ ret' = Returned(find_minimal_pairs(args.words, args.max_differences))
    /\ pc' = "done"
    /\ UNCHANGED args

GroupSimilarWordsByPattern ==
    /\ pc = "ready"
    /\ args.op = "group_similar_words_by_pattern"
    /\ ret' = group_similar_words_by_pattern(args.words)
    /\ pc' = "done"
    /\ UNCHANGED args

NextSearch ==
    \/ FindSimilarWords
    \/ FindRhymingWords
    \/ FindMinimalPairs
    \/ GroupSimilarWordsByPattern

SpecSearch == InitSearch /\ [][NextSearch]_vars

\* C11: find_minimal_pairs never returns a pair in which either word lacks
\* phonological_info, whatever the word list and the integer max_differences,
\* even when the texts of the two words are identical.
C11_PairsHavePhonologicalInfo ==
    (pc = "done" /\ args.op = "find_minimal_pairs") =>
        /\ ret.kind = "returned"
        /\ \A k \in 1..Len(ret.value) :
              /\ ret.value[k][1].phonological_info # None
              /\ ret.value[k][2].phonological_info # None

\* a list in which a word without phonological data stands before a word of
\* the same text, and from which a pair is returned
C11_Witness ==
    /\ pc = "done"
    /\ args.op = "find_minimal_pairs"
    /\ ret.value # <<>>
    /\ \E i, j \in 1..Len(args.words) :
          /\ i < j
          /\ args.words[i].phonological_info = None
          /\ args.words[i].shuar_text = args.words[j].shuar_text
          /\ args.max_differences >= 1

\* C14: for max_results >= 0 the list returned by find_similar_words (a) holds
\* no candidate whose text equals the target text, (b) holds only candidates
\* whose overall similarity is at least min_similarity_threshold, (c) is in
\* non-increasing order of overall similarity, (d) has at most max_results
\* entries, and (e) consists of the top-scoring survivors: no candidate that
\* passed the filters and was cut off scores strictly higher than a returned one.
C14_RankedSurvivors ==
    (/\ pc = "done"
     /\ args.op = "find_similar_words"
     /\ ret.kind = "returned"
     /\ (IF args.criteria = None THEN DefaultSearchCriteria
         ELSE Get(args.criteria)).max_results >= 0) =>
        LET criteria == IF args.criteria = None THEN DefaultSearchCriteria
                        ELSE Get(args.criteria)
            Overall(sw) == sw.similarity.overall_similarity
        IN  \A survivors \in {SimilarFrom(Strip(Lower(args.target_word)),
                                          args.candidate_words, criteria,
                                          args.digraph_order, 1).value} :
            /\ \A k \in 1..Len(ret.value) :
                  ret.value[k].word.shuar_text # args.target_word
            /\ \A k \in 1..Len(ret.value) :
                  RLe(criteria.min_similarity_threshold, Overall(ret.value[k]))
            /\ \A k \in 1..Len(ret.value) - 1 :
                  RLe(Overall(ret.value[k + 1]), Overall(ret.value[k]))
            /\ Len(ret.value) <= criteria.max_results
            /\ \A k \in 1..Len(ret.value) : \E i \in 1..Len(survivors) :
                  survivors[i] = ret.value[k]
            /\ Len(ret.value) < Len(survivors) =>
                  /\ Len(ret.value) = criteria.max_results
                  /\ \A k \in 1..Len(ret.value) :
                        Cardinality({i \in 1..Len(survivors) :
                                        RLt(Overall(ret.value[k]), Overall(survivors[i]))})
                            < Len(ret.value)

\* the vocal types of two lists agree once sorted: each type occurs equally often
SameSortedTypes(types1, types2) ==
    \A t \in VocalType :
        Cardinality({i \in 1..Len(types1) : types1[i] = t})
            = Cardinality({i \in 1..Len(types2) : types2[i] = t})

\* C20: group_similar_words_by_pattern returns, for every list of words (words
\* with two or three vocal types included), a partition of exactly the words
\* that have phonological_info: each such word is in exactly one bucket, two
\* such words share a bucket iff they have the same syllable_pattern and the
\* same sorted vocal types, and no word without phonological_info is in a bucket.
C20_PartitionByPattern ==
    (pc = "done" /\ args.op = "group_similar_words_by_pattern") =>
        /\ ret.kind = "returned"
        /\ LET groups == ret.value
               InBucket(k, w) == \E i \in 1..Len(groups[k]) : groups[k][i] = w
               with_info == {w \in ToSet(args.words) : w.phonological_info # None}
               info(w) == Get(w.phonological_info)
           IN  /\ \A w \in with_info :
                     Cardinality({k \in DOMAIN groups : InBucket(k, w)}) = 1
               /\ \A w1, w2 \in with_info :
                     (\E k \in DOMAIN groups : InBucket(k, w1) /\ InBucket(k, w2))
                         <=> /\ info(w1).syllable_pattern = info(w2).syllable_pattern
                             /\ SameSortedTypes(info(w1).vocal_types_present,
                                                info(w2).vocal_types_present)
               /\ \A k \in DOMAIN groups : \A i \in 1..Len(groups[k]) :
                     groups[k][i].phonological_info # None

(***************************************************************************)
(* Quality metrics and recommendations of the translation scoring service. *)
(***************************************************************************)
_has_native_speaker_approval(feedback_list) ==
    \E i \in 1..Len(feedback_list) :
        /\ feedback_list[i].is_from_native_speaker
        /\ feedback_list[i].rating # None
        /\ Get(feedback_list[i].rating) >= 4

_assess_phonological_accuracy(translation, source_word) ==
    LET accuracy1 == IF Len(translation.target_text) >= Len(translation.source_text)
                     THEN RAdd(Half, Rat(2, 10)) ELSE Half
        accuracy2 == IF source_word.is_verified THEN RAdd(accuracy1, Rat(3, 10))
                     ELSE accuracy1
    IN  IF source_word.phonological_info = None THEN Half ELSE RMin(One, accuracy2)

_assess_cultural_appropriateness(translation, feedback_list) ==
    LET cultural_feedback ==
            SelectSeq(feedback_list,
                      LAMBDA f : /\ f.cultural_context # None
                                 /\ Strip(Get(f.cultural_context)) # <<>>)
        cultural_ratings == Rated(cultural_feedback)
        avg_cultural_rating ==
            RDiv(RSum([i \in 1..Len(cultural_ratings) |->
                          RInt(Get(cultural_ratings[i].rating))]),
                 RInt(Len(cultural_ratings)))
        appropriateness1 ==
            IF cultural_ratings # <<>> THEN RDiv(RSub(avg_cultural_rating, One), RInt(4))
            ELSE Half
        appropriateness2 ==
            IF /\ translation.context # None
               /\ Get(translation.context).cultural_notes # None
               /\ Get(Get(translation.context).cultural_notes) # <<>>
            THEN RAdd(appropriateness1, Rat(2, 10))
            ELSE appropriateness1
    IN  RMin(One, appropriateness2)

\* the TranslationQualityMetrics returned at lines 136-146, its overall score
\* (lines 126-133) computed from the other fields
TranslationQualityMetrics(confidence_score, community_rating, expert_approval, usage_frequency, feedback_count, native_speaker_approval, phonological_accuracy, cultural_appropriateness) ==
    [confidence_score |-> confidence_score,
     community_rating |-> community_rating,
     expert_approval |-> expert_approval,
     usage_frequency |-> usage_frequency,
     feedback_count |-> feedback_count,
     native_speaker_approval |-> native_speaker_approval,
     phonological_accuracy |-> phonological_accuracy,
     cultural_appropriateness |-> cultural_appropriateness,
     overall_quality_score |->
         _calculate_overall_quality(confidence_score, community_rating, expert_approval,
                                    usage_frequency, phonological_accuracy,
                                    cultural_appropriateness)]

calculate_quality_metrics(translation, feedback_list, source_word) ==
    TranslationQualityMetrics(
        calculate_translation_confidence(translation, source_word, feedback_list),
        _calculate_weighted_community_rating(feedback_list),
        translation.approved_by # None,
        translation.usage_count,
        Len(feedback_list),
        _has_native_speaker_approval(feedback_list),
        IF source_word # None /\ Get(source_word).phonological_info # None
        THEN _assess_phonological_accuracy(translation, Get(source_word))
        ELSE Half,
        _assess_cultural_appropriateness(translation, feedback_list))

recommend_translation_improvements(translation, quality_metrics, feedback_list) ==
    LET negative_feedback ==
            SelectSeq(feedback_list, LAMBDA f : f.rating # None /\ Get(f.rating) <= 2)
        suggestions ==
            SelectSeq(feedback_list,
                      LAMBDA f : /\ f.suggested_translation # None
                                 /\ Get(f.suggested_translation) # <<>>)
    IN  (IF RLt(quality_metrics.confidence_score, Rat(6, 10))
         THEN <<"Consider seeking expert review to improve confidence">> ELSE <<>>)
        \o (IF RLt(quality_metrics.community_rating, RInt(3))
            THEN <<"Review community feedback for suggested improvements">> ELSE <<>>)
        \o (IF ~quality_metrics.expert_approval
            THEN <<"Submit for expert linguistic review">> ELSE <<>>)
        \o (IF quality_metrics.usage_frequency < 5
            THEN <<"Translation needs more community validation through usage">>
            ELSE <<>>)
        \o (IF RLt(quality_metrics.phonological_accuracy, Rat(6, 10))
            THEN <<"Review phonological accuracy with native speakers">> ELSE <<>>)
        \o (IF RLt(quality_metrics.cultural_appropriateness, Rat(6, 10))
            THEN <<"Add cultural context or seek cultural validation">> ELSE <<>>)
        \o (IF negative_feedback # <<>>
            THEN <<"Address concerns raised in low-rating feedback">> ELSE <<>>)
        \o (IF suggestions # <<>>
            THEN <<"Consider alternative translations suggested by community">>
            ELSE <<>>)

(***************************************************************************)
(* SpecEngine: one call of any of the engine's operations, the search      *)
(* operations of SpecSearch and the scorer's three public operations.      *)
(***************************************************************************)
\* translations as the three scoring operations read them
EngineTranslations ==
    { [status |-> s, total_ratings |-> 0, average_rating |-> Zero, usage_count |-> u,
       approved_by |-> ab, source_text |-> <<"t", "a">>, target_text |-> tt,
       context |-> ctx] :
        s \in {"PENDING", "APPROVED"}, u \in 0..MaxUsage,
        ab \in {None, Some("expert")}, tt \in {<<"a">>, <<"c", "a", "s", "a">>},
        ctx \in {None, Some([cultural_notes |-> None]),
                 Some([cultural_notes |-> Some(<<"a">>)])} }

EngineFeedback(rating, is_from_native_speaker, cultural_context, suggested_translation) ==
    [rating |-> rating, user_role |-> "COMMUNITY_MEMBER",
     is_from_native_speaker |-> is_from_native_speaker,
     cultural_context |-> cultural_context,
     suggested_translation |-> suggested_translation]

EngineFeedbackLists ==
    SeqsUpTo({EngineFeedback(None, FALSE, Some(<<" ">>), Some(<<"a">>)),
              EngineFeedback(Some(2), FALSE, Some(<<"a">>), None),
              EngineFeedback(Some(5), TRUE, None, None)}, MaxFeedback)

EngineWords ==
    {None,
     Some([is_verified |-> FALSE, confidence_level |-> One, frequency_score |-> 0,
           phonological_info |-> None]),
     Some([is_verified |-> TRUE, confidence_level |-> Zero, frequency_score |-> 11,
           phonological_info |-> WordTa.phonological_info])}

InitEngine ==
    \/ InitSearch
    \/ /\ pc = "ready"
       /\ ret = NoReturn
       /\ \E t \in EngineTranslations, w \in EngineWords, fl \in EngineFeedbackLists :
             \/ args = [op |-> "calculate_translation_confidence", translation |-> t,
                        source_word |-> w, feedback_list |-> fl]
             \/ args = [op |-> "calculate_quality_metrics", translation |-> t,
                        feedback_list |-> fl, source_word |-> w]
             \/ args = [op |-> "recommend_translation_improvements", translation |-> t,
                        quality_metrics |-> calculate_quality_metrics(t, fl, w),
                        feedback_list |-> fl]

CalculateQualityMetrics ==
    /\ pc = "ready"
    /\ args.op = "calculate_quality_metrics"
    /\ ret' = Returned(calculate_quality_metrics(args.translation, args.feedback_list,
                                                 args.source_word))
    /\ pc' = "done"
    /\ UNCHANGED args

RecommendTranslationImprovements ==
    /\ pc = "ready"
    /\ args.op = "recommend_translation_improvements"
    /\ ret' = Returned(recommend_translation_improvements(
                          args.translation, args.quality_metrics, args.feedback_list))
    /\ pc' = "done"
    /\ UNCHANGED args

NextEngine ==
    \/ FindSimilarWords
    \/ FindRhymingWords
    \/ FindMinimalPairs
    \/ GroupSimilarWordsByPattern
    \/ CalculateTranslationConfidence
    \/ CalculateQualityMetrics
    \/ RecommendTranslationImprovements

SpecEngine == InitEngine /\ [][NextEngine]_vars

SuffixHitRatio(words, suffixes) ==
    IF words = <<>> THEN Zero
    ELSE Rat(Cardinality({i \in 1..Len(words) :
                             \E suffix \in suffixes : EndsWith(words[i], suffix)}),
             Len(words))

\* C21: in detect_language the suffix features are hit-ratios against the two
\* suffix lists: shuar_suffixes (resp. spanish_suffixes) is the fraction of the
\* text's words that end in one of ni, ai, ka, ma, ta, nu, tu, chi (resp. cion,
\* dad, mente, oso, osa, ado, ada, ero, era), so a text whose every word ends in
\* a listed suffix has ratio 1.
C21_SuffixHitRatio ==
    DetectReturned =>
        LET words == Split(Strip(Lower(args.text)))
            features == ret.value.features_detected
        IN  /\ features.shuar_suffixes
                   = SuffixHitRatio(words, {Tail(suffix) : suffix \in SHUAR_SUFFIXES})
            /\ features.spanish_suffixes
                   = SuffixHitRatio(words, {Tail(suffix) : suffix \in SPANISH_SUFFIXES})

(***************************************************************************)
(* detect_language as binary64 computes it: each feature ratio is one      *)
(* float division, the vowel-system scores and the two language scores are *)
(* float sums taken in source order.                                       *)
(***************************************************************************)
F64Lt(x, y) == ~F64Le(y, x)

\* the float nearest to d * 2^e, d a natural number in digits
F64OfDigits(d, e) == IF d = <<>> THEN F64Zero ELSE F64Round(d, e, FALSE)

\* max(0.0, x - y): the difference when x >= y, else 0.0
F64SubFloor(x, y) ==
    IF y = F64Zero THEN x
    ELSE IF F64Lt(x, y) THEN F64Zero
    ELSE F64OfDigits(BSub(BShl(x.m, x.e - (IF x.e < y.e THEN x.e ELSE y.e)),
                          BShl(y.m, y.e - (IF x.e < y.e THEN x.e ELSE y.e))),
                     IF x.e < y.e THEN x.e ELSE y.e)

\* min(1.0, x)
F64Min1(x) == IF F64Le(F64Nat(1), x) THEN F64Nat(1) ELSE x

VowelSystemShuarF64(base_count, nasal, laryngealized) ==
    F64Min1(F64Add(F64Add(F64Div(F64Nat(base_count), F64Nat(4)),
                          IF nasal THEN F64Of(Rat(3, 10)) ELSE F64Zero),
                   IF laryngealized THEN F64Of(Rat(4, 10)) ELSE F64Zero))

_analyze_vowel_system_shuar_F64(text) ==
    VowelSystemShuarF64(
        Cardinality(Chars(text) \cap SHUAR_VOWELS \cap {"a", "e", "i", "u"}),
        Chars(text) \cap SHUAR_VOWELS \cap SHUAR_NASAL_VOWELS # {},
        Chars(text) \cap SHUAR_VOWELS \cap SHUAR_LARYNGEALIZED_VOWELS # {})

VowelSystemSpanishF64(base_count, has_o, laryngealized) ==
    F64Min1(F64SubFloor(F64Add(F64Div(F64Nat(base_count), F64Nat(5)),
                               IF has_o THEN F64Of(Rat(3, 10)) ELSE F64Zero),
                        IF laryngealized THEN F64Of(Rat(6, 10)) ELSE F64Zero))

_analyze_vowel_system_spanish_F64(text) ==
    VowelSystemSpanishF64(
        Cardinality(Chars(text) \cap SPANISH_VOWELS \cap {"a", "e", "i", "o", "u"}),
        "o" \in Chars(text) \cap SPANISH_VOWELS,
        Chars(text) \cap SPANISH_VOWELS \cap SHUAR_LARYNGEALIZED_VOWELS # {})

\* the features the two scores read, as floats
_analyze_features_F64(text) ==
    [shuar_nasal_vowels |->
         F64Of(_count_feature_ratio(text, SHUAR_NASAL_VOWELS,
                                    Len(text) - CountIn(text, {" "}))),
     shuar_laryngealized_vowels |->
         F64Of(_count_feature_ratio(text, SHUAR_LARYNGEALIZED_VOWELS,
                                    Len(text) - CountIn(text, {" "}))),
     shuar_digraphs |-> F64Of(_count_digraph_ratio(text, SHUAR_DIGRAPHS, Len(Split(text)))),
     spanish_digraphs |->
         F64Of(_count_digraph_ratio(text, SPANISH_DIGRAPHS, Len(Split(text)))),
     has_spanish_o |-> IF "o" \in Chars(text) THEN F64Nat(1) ELSE F64Zero,
     vowel_system_shuar |-> _analyze_vowel_system_shuar_F64(text),
     vowel_system_spanish |-> _analyze_vowel_system_spanish_F64(text),
     shuar_common_words |-> F64Of(_count_common_words(Split(text), SHUAR_COMMON_WORDS)),
     spanish_common_words |-> F64Of(_count_common_words(Split(text), SPANISH_COMMON_WORDS)),
     shuar_suffixes |-> F64Of(_count_suffix_patterns(Split(text), SHUAR_SUFFIXES)),
     spanish_suffixes |-> F64Of(_count_suffix_patterns(Split(text), SPANISH_SUFFIXES)),
     avg_word_length |->
         IF Split(text) # <<>> THEN F64Of(Rat(SumLen(Split(text)), Len(Split(text))))
         ELSE F64Zero]

_calculate_shuar_score_F64(features) ==
    F64Add(F64Sum(<< F64MulSmall(features.shuar_nasal_vowels, 3, 0),
                     F64MulSmall(features.shuar_laryngealized_vowels, 4, 0),
                     F64MulSmall(features.vowel_system_shuar, 2, 0),
                     F64MulSmall(features.shuar_common_words, 3, 0),
                     F64MulSmall(features.shuar_suffixes, 2, 0),
                     F64MulSmall(features.shuar_digraphs, 3, -1) >>),
           IF F64Lt(F64Nat(4), features.avg_word_length) THEN F64Nat(1) ELSE F64Zero)

_calculate_spanish_score_F64(features) ==
    F64SubFloor(
        F64SubFloor(F64Sum(<< F64MulSmall(features.has_spanish_o, 3, 0),
                              F64MulSmall(features.vowel_system_spanish, 2, 0),
                              F64MulSmall(features.spanish_common_words, 3, 0),
                              F64MulSmall(features.spanish_suffixes, 2, 0),
                              F64MulSmall(features.spanish_digraphs, 3, -1) >>),
                    F64MulSmall(features.shuar_laryngealized_vowels, 2, 0)),
        features.shuar_nasal_vowels)

_get_confidence_level_F64(confidence) ==
    IF F64Lt(F64Of(Rat(8, 10)), confidence) THEN "HIGH"
    ELSE IF F64Lt(F64Of(Rat(5, 10)), confidence) THEN "MEDIUM"
    ELSE "LOW"

LanguageDetectionResultF64(detected_language, confidence, shuar_score, spanish_score) ==
    [detected_language |-> detected_language, confidence |-> confidence,
     confidence_level |-> _get_confidence_level_F64(confidence),
     shuar_score |-> shuar_score, spanish_score |-> spanish_score]

\* lines 81-87 on the two scores
DetectFromScoresF64(shuar_score, spanish_score) ==
    IF F64Add(shuar_score, spanish_score) = F64Zero THEN Raised("ZeroDivisionError")
    ELSE IF F64Lt(spanish_score, shuar_score)
         THEN Returned(LanguageDetectionResultF64(
                           "SHUAR", F64Div(shuar_score, F64Add(shuar_score, spanish_score)),
                           shuar_score, spanish_score))
         ELSE Returned(LanguageDetectionResultF64(
                           "SPANISH",
                           F64Div(spanish_score, F64Add(shuar_score, spanish_score)),
                           shuar_score, spanish_score))

DetectFromFeaturesF64(features) ==
    DetectFromScoresF64(_calculate_shuar_score_F64(features),
                        _calculate_spanish_score_F64(features))

detect_language_F64(text0) ==
    IF text0 = <<>> \/ Strip(text0) = <<>> THEN Raised("ValidationError")
    ELSE DetectFromFeaturesF64(_analyze_features_F64(Strip(Lower(text0))))

\* texts of up to MaxChunks pieces, the pieces of a tie among them
FloatTextChunks ==
    { <<"a">>, <<"a'">>, <<"a:">>, <<"o">>, <<" ">>, <<"c", "h">>, <<"x">>,
      <<"c", "a", "s", "a">>, <<"y", "a", "w", "a">> }

FloatTexts == {Concat(cs) : cs \in SeqsUpTo(FloatTextChunks, MaxChunks)}

InitDetectF64 ==
    /\ pc = "ready"
    /\ ret = NoReturn
    /\ \E t \in FloatTexts : args = [op |-> "detect_language_F64", text |-> t]

DetectLanguageF64 ==
    /\ pc = "ready"
    /\ args.op = "detect_language_F64"
    /\ ret' = detect_language_F64(args.text)
    /\ pc' = "done"
    /\ UNCHANGED args

NextDetectF64 == DetectLanguageF64

SpecDetectF64 == InitDetectF64 /\ [][NextDetectF64]_vars

\* C22: whenever detect_language returns, its confidence is >= 0.5, and the
\* LOW tier is produced only by an exact tie of two positive scores
\* (confidence exactly 0.5, language Spanish).
C22_ConfidenceFloor ==
    (pc = "done" /\ args.op = "detect_language_F64" /\ ret.kind = "returned") =>
        /\ F64Le(F64Of(Rat(1, 2)), ret.value.confidence)
        /\ ret.value.confidence_level = "LOW" =>
              /\ ret.value.shuar_score = ret.value.spanish_score
              /\ ret.value.shuar_score # F64Zero
              /\ ret.value.confidence = F64Of(Rat(1, 2))
              /\ ret.value.detected_language = "SPANISH"

(***************************************************************************)
(* The Translation entity: its approval state under approve, reject,       *)
(* mark_needs_review and update_translation.  The entity is carried in     *)
(* args.self, the outcome of the last call in ret.                         *)
(***************************************************************************)
MaxEntityCalls == 4

Experts == {"expert1", "expert2"}

\* what a method call leaves behind: the entity and how the call ended
Outcome(self, result) == [self |-> self, result |-> result]

\* Translation(source_text, target_text) with the dataclass defaults
NewTranslation == [target_text |-> <<"a">>, status |-> "PENDING", approved_by |-> None]

Translation_update_translation(self, new_target_text) ==
    IF new_target_text = <<>> \/ Strip(new_target_text) = <<>>
    THEN Outcome(self, Raised("ValidationError"))
    ELSE Outcome([self EXCEPT !.target_text = Strip(new_target_text),
                              !.status = "NEEDS_REVIEW",
                              !.approved_by = None],
                 Returned(None))

Translation_approve(self, approved_by) ==
    Outcome([self EXCEPT !.status = "APPROVED", !.approved_by = Some(approved_by)],
            Returned(None))

Translation_reject(self) ==
    Outcome([self EXCEPT !.status = "REJECTED", !.approved_by = None], Returned(None))

Translation_mark_needs_review(self) ==
    Outcome([self EXCEPT !.status = "NEEDS_REVIEW"], Returned(None))

\* expert_approval as calculate_quality_metrics reads it off the entity
ExpertApprovalOf(translation) == translation.approved_by # None

TargetTexts == { <<>>, <<" ">>, <<"b">>, <<" ", "c", " ">> }

InitTranslation ==
    /\ pc = "ready"
    /\ ret = NoReturn
    /\ args = [op |-> "Translation", self |-> NewTranslation, method |-> "__init__", calls |-> 0]

\* a further call can be made on the entity of args
TranslationCallable ==
    /\ pc = "ready"
    /\ args.op = "Translation"
    /\ args.calls < MaxEntityCalls

\* args once the method has run
AfterCall(method, outcome) ==
    [args EXCEPT !.self = outcome.self, !.method = method, !.calls = @ + 1]

TranslationApprove ==
    /\ TranslationCallable
    /\ \E approved_by \in Experts :
          \E outcome \in {Translation_approve(args.self, approved_by)} :
              /\ args' = AfterCall("approve", outcome)
              /\ ret' = outcome.result
    /\ UNCHANGED pc

TranslationReject ==
    /\ TranslationCallable
    /\ \E outcome \in {Translation_reject(args.self)} :
          /\ args' = AfterCall("reject", outcome)
          /\ ret' = outcome.result
    /\ UNCHANGED pc

TranslationMarkNeedsReview ==
    /\ TranslationCallable
    /\ \E outcome \in {Translation_mark_needs_review(args.self)} :
          /\ args' = AfterCall("mark_needs_review", outcome)
          /\ ret' = outcome.result
    /\ UNCHANGED pc

TranslationUpdateTranslation ==
    /\ TranslationCallable
    /\ \E new_target_text \in TargetTexts :
          \E outcome \in {Translation_update_translation(args.self, new_target_text)} :
              /\ args' = AfterCall("update_translation", outcome)
              /\ ret' = outcome.result
    /\ UNCHANGED pc

NextTranslation ==
    \/ TranslationApprove
    \/ TranslationReject
    \/ TranslationMarkNeedsReview
    \/ TranslationUpdateTranslation

SpecTranslation == InitTranslation /\ [][NextTranslation]_vars

\* C23: after any sequence of approve, reject, mark_needs_review and
\* update_translation calls, approved_by is non-null (expert_approval is true)
\* only while the status is APPROVED.
C23_ApprovedByOnlyWhileApproved ==
    args.op = "Translation" =>
        (ExpertApprovalOf(args.self) => args.self.status = "APPROVED")

(***************************************************************************)
(* Translation.add_rating as binary64 computes it.  args.self carries      *)
(* average_rating and total_ratings, args.before the entity before the     *)
(* last call; args.valid_calls and args.rating_sum count and add up the    *)
(* ratings in 1..5 that were passed.                                       *)
(***************************************************************************)
MaxAddRatingCalls == 8

\* the ratings passed, 0 and 6 being the invalid ones next to the range
AddRatingInputs == 0..6

Translation_add_rating(self, rating) ==
    IF ~(1 <= rating /\ rating <= 5) THEN Outcome(self, Raised("ValidationError"))
    ELSE LET total_score ==
                 F64Add(F64MulSmall(self.average_rating, self.total_ratings, 0), F64Nat(rating))
         IN  Outcome([self EXCEPT !.total_ratings = @ + 1,
                                  !.average_rating = F64Div(total_score, F64Nat(self.total_ratings + 1))],
                     Returned(None))

InitAddRating ==
    /\ pc = "ready"
    /\ ret = NoReturn
    /\ \E self \in {[average_rating |-> F64Zero, total_ratings |-> 0]} :
          args = [op |-> "add_rating", self |-> self, before |-> self,
                  rating |-> 0, calls |-> 0, valid_calls |-> 0, rating_sum |-> 0]

AddRating ==
    /\ pc = "ready"
    /\ args.op = "add_rating"
    /\ args.calls < MaxAddRatingCalls
    /\ \E rating \in AddRatingInputs :
          \E outcome \in {Translation_add_rating(args.self, rating)} :
              /\ args' = [args EXCEPT
                             !.self = outcome.self,
                             !.before = args.self,
                             !.rating = rating,
                             !.calls = @ + 1,
                             !.valid_calls = IF rating \in 1..5 THEN @ + 1 ELSE @,
                             !.rating_sum = IF rating \in 1..5 THEN @ + rating ELSE @]
              /\ ret' = outcome.result
    /\ UNCHANGED pc

NextAddRating == AddRating

SpecAddRating == InitAddRating /\ [][NextAddRating]_vars

\* the float nearest to the mean of the ratings passed
MeanOf(rating_sum, valid_calls) == F64Div(F64Nat(rating_sum), F64Nat(valid_calls))

\* C24: from total_ratings = 0, after any sequence of add_rating calls
\* total_ratings is the number of calls with a rating in 1..5,
\* average_rating * total_ratings is the sum of those ratings (as a product
\* of floats, or at least with average_rating the float nearest to the
\* mean), average_rating is in [1, 5] once total_ratings > 0, and a call
\* with a rating outside 1..5 raises ValidationError and leaves both fields
\* unchanged.
C24_RatingAggregate ==
    args.op = "add_rating" =>
        /\ args.self.total_ratings = args.valid_calls
        /\ \/ F64MulSmall(args.self.average_rating, args.self.total_ratings, 0) = F64Nat(args.rating_sum)
           \/ /\ args.valid_calls > 0
              /\ args.self.average_rating = MeanOf(args.rating_sum, args.valid_calls)
        /\ args.self.total_ratings > 0 =>
              /\ F64Le(F64Nat(1), args.self.average_rating)
              /\ F64Le(args.self.average_rating, F64Nat(5))
        /\ (args.calls > 0 /\ args.rating \notin 1..5) =>
              /\ ret = Raised("ValidationError")
              /\ args.self = args.before

(***************************************************************************)
(* The Feedback entity under review, approve, reject and implement.        *)
(* args.self carries status, reviewed_by, reviewed_at and expert_notes;    *)
(* args.now is the clock that datetime.now() reads.  Expert notes are      *)
(* texts of the shape spaces + body + spaces, written as the three         *)
(* lengths, so that len() and strip() are what they are on the text.       *)
(***************************************************************************)
MaxExpertNotes == 1000

Notes(lead, body, trail) == <<lead, body, trail>>

NotesLen(notes) == notes[1] + notes[2] + notes[3]

NotesStrip(notes) == IF notes[2] = 0 THEN Notes(0, 0, 0) ELSE Notes(0, notes[2], 0)

\* `if expert_notes`: neither None nor the empty text
NotesTruthy(expert_notes) == expert_notes # None /\ NotesLen(Get(expert_notes)) > 0

\* Feedback(translation_id, rating) with the dataclass defaults
NewFeedback ==
    [status |-> "PENDING", reviewed_by |-> None, reviewed_at |-> None, expert_notes |-> None]

\* status, reviewer and time are set before the notes are looked at
Feedback_mark(self, status, reviewed_by, expert_notes, now) ==
    LET marked == [self EXCEPT !.status = status,
                               !.reviewed_by = Some(reviewed_by),
                               !.reviewed_at = Some(now)]
    IN  IF ~NotesTruthy(expert_notes) THEN Outcome(marked, Returned(None))
        ELSE IF NotesLen(Get(expert_notes)) > MaxExpertNotes
        THEN Outcome(marked, Raised("ValidationError"))
        ELSE Outcome([marked EXCEPT !.expert_notes = Some(NotesStrip(Get(expert_notes)))],
                     Returned(None))

Feedback_review(self, reviewed_by, expert_notes, now) ==
    Feedback_mark(self, "REVIEWED", reviewed_by, expert_notes, now)

Feedback_approve(self, approved_by, expert_notes, now) ==
    Feedback_mark(self, "APPROVED", approved_by, expert_notes, now)

Feedback_reject(self, rejected_by, expert_notes, now) ==
    IF ~NotesTruthy(expert_notes) \/ NotesStrip(Get(expert_notes)) = Notes(0, 0, 0)
    THEN Outcome(self, Raised("ValidationError"))
    ELSE IF NotesLen(Get(expert_notes)) > MaxExpertNotes
    THEN Outcome(self, Raised("ValidationError"))
    ELSE Outcome([self EXCEPT !.status = "REJECTED",
                              !.reviewed_by = Some(rejected_by),
                              !.reviewed_at = Some(now),
                              !.expert_notes = Some(NotesStrip(Get(expert_notes)))],
                 Returned(None))

\* faulty variant: the status is not looked at
Feedback_implement_unguarded(self) ==
    Outcome([self EXCEPT !.status = "IMPLEMENTED"], Returned(None))

Feedback_implement(self) ==
    IF self.status # "APPROVED" THEN Outcome(self, Raised("ValidationError"))
    ELSE Outcome([self EXCEPT !.status = "IMPLEMENTED"], Returned(None))

ExpertNotesInputs ==
    { None, Some(Notes(0, 0, 0)), Some(Notes(1, 0, 0)), Some(Notes(1, 2, 1)),
      Some(Notes(1, MaxExpertNotes, 0)), Some(Notes(0, MaxExpertNotes + 1, 0)) }

InitFeedback ==
    /\ pc = "ready"
    /\ ret = NoReturn
    /\ args = [op |-> "Feedback", self |-> NewFeedback, method |-> "__init__", calls |-> 0, now |-> 0]

FeedbackCallable ==
    /\ pc = "ready"
    /\ args.op = "Feedback"
    /\ args.calls < MaxEntityCalls

\* args once the method has run, the clock having moved on
AfterFeedbackCall(method, outcome) ==
    [args EXCEPT !.self = outcome.self, !.method = method, !.calls = @ + 1, !.now = @ + 1]

FeedbackReview ==
    /\ FeedbackCallable
    /\ \E reviewed_by \in Experts, expert_notes \in ExpertNotesInputs :
          \E outcome \in {Feedback_review(args.self, reviewed_by, expert_notes, args.now + 1)} :
              /\ args' = AfterFeedbackCall("review", outcome)
              /\ ret' = outcome.result
    /\ UNCHANGED pc

FeedbackApprove ==
    /\ FeedbackCallable
    /\ \E approved_by \in Experts, expert_notes \in ExpertNotesInputs :
          \E outcome \in {Feedback_approve(args.self, approved_by, expert_notes, args.now + 1)} :
              /\ args' = AfterFeedbackCall("approve", outcome)
              /\ ret' = outcome.result
    /\ UNCHANGED pc

FeedbackReject ==
    /\ FeedbackCallable
    /\ \E rejected_by \in Experts, expert_notes \in ExpertNotesInputs :
          \E outcome \in {Feedback_reject(args.self, rejected_by, expert_notes, args.now + 1)} :
              /\ args' = AfterFeedbackCall("reject", outcome)
              /\ ret' = outcome.result
    /\ UNCHANGED pc

FeedbackImplement ==
    /\ FeedbackCallable
    /\ \E outcome \in {Feedback_implement(args.self)} :
          /\ args' = AfterFeedbackCall("implement", outcome)
          /\ ret' = outcome.result
    /\ UNCHANGED pc

NextFeedback ==
    \/ FeedbackReview
    \/ FeedbackApprove
    \/ FeedbackReject
    \/ FeedbackImplement

SpecFeedback == InitFeedback /\ [][NextFeedback]_vars

\* C25: in every sequence of review, approve, reject and implement calls the
\* status IMPLEMENTED is entered only by implement() from APPROVED, and
\* implement() in any other status raises ValidationError and leaves the
\* status unchanged.
C25_ImplementedOnlyFromApproved ==
    [][args.op = "Feedback" =>
          /\ (args'.self.status = "IMPLEMENTED" /\ args.self.status # "IMPLEMENTED") =>
                 (args'.method = "implement" /\ args.self.status = "APPROVED")
          /\ (args'.method = "implement" /\ args.self.status # "APPROVED") =>
                 (ret' = Raised("ValidationError") /\ args'.self.status = args.self.status)]_vars

\* C25 witness: implement() has just turned an approved feedback into an
\* implemented one.
C25_Witness ==
    /\ args.op = "Feedback"
    /\ args.method = "implement"
    /\ ret = Returned(None)
    /\ args.self.status = "IMPLEMENTED"

\* C26: when review, approve or reject raises ValidationError, the status,
\* reviewed_by, reviewed_at and expert_notes of the feedback are what they
\* were before the call.
C26_FailedCallLeavesFeedback ==
    [][(args.op = "Feedback"
        /\ args'.method \in {"review", "approve", "reject"}
        /\ ret' = Raised("ValidationError")) =>
          args'.self = args.self]_vars

(***************************************************************************)
(* ReviewFeedbackUseCase.execute over the two Supabase tables.  A table    *)
(* holds at most the one row the request is about (None: no such row).     *)
(* Every repository call may fail; `failing` names the call that does.     *)
(***************************************************************************)
RepositoryCalls ==
    {"feedback.find_by_id", "translation.find_by_id", "translation.update", "feedback.update"}

\* the tables after the call and how the call ended
Stored(feedback_table, translation_table, result) ==
    [feedback_table |-> feedback_table, translation_table |-> translation_table, result |-> result]

\* SupabaseFeedbackRepository.update: the columns of _feedback_to_dict are
\* written, reviewed_by and reviewed_at only when they are set
FeedbackUpdateRow(row, feedback) ==
    [row EXCEPT !.status = feedback.status,
                !.expert_notes = feedback.expert_notes,
                !.suggested_translation = feedback.suggested_translation,
                !.reviewed_by = IF feedback.reviewed_by # None THEN feedback.reviewed_by ELSE @,
                !.reviewed_at = IF feedback.reviewed_at # None THEN feedback.reviewed_at ELSE @]

\* SupabaseTranslationRepository.update: the columns of _translation_to_dict
\* are written, approved_by only when it is set
TranslationUpdateRow(row, translation) ==
    [row EXCEPT !.target_text = translation.target_text,
                !.status = translation.status,
                !.approved_by = IF translation.approved_by # None THEN translation.approved_by ELSE @]

ValidActions == {"approve", "reject", "implement"}

\* _validate_request passes
RequestValid(request) ==
    /\ request.action \in ValidActions
    /\ ~(request.action = "reject" /\ ~NotesTruthy(request.expert_notes))
    /\ ~(NotesTruthy(request.expert_notes) /\ NotesLen(Get(request.expert_notes)) > MaxExpertNotes)

\* lines 55-58: the feedback the action left is written back
SaveFeedback(outcome, feedback_table, translation_table, failing) ==
    IF outcome.result.kind = "raised" THEN Stored(feedback_table, translation_table, outcome.result)
    ELSE IF failing = "feedback.update"
    THEN Stored(feedback_table, translation_table, Raised("RepositoryError"))
    ELSE Stored(Some(FeedbackUpdateRow(Get(feedback_table), outcome.self)), translation_table,
                Returned(FeedbackUpdateRow(Get(feedback_table), outcome.self)))

\* lines 74-76
ApprovedFirst(feedback, expert_id, now) ==
    IF feedback.status # "APPROVED" THEN Feedback_approve(feedback, expert_id, None, now).self
    ELSE feedback

\* _implement_feedback: the feedback it leaves and the translation table
\* it leaves, as Stored(outcome of the feedback, translation table, _)
_implement_feedback(feedback, expert_id, translation_table, failing, now) ==
    IF feedback.suggested_translation = None \/ Get(feedback.suggested_translation) = <<>>
    THEN Stored(Feedback_implement(ApprovedFirst(feedback, expert_id, now)), translation_table, None)
    ELSE IF failing = "translation.find_by_id"
    THEN Stored(Outcome(feedback, Raised("RepositoryError")), translation_table, None)
    ELSE IF translation_table = None
    THEN Stored(Feedback_implement(ApprovedFirst(feedback, expert_id, now)), translation_table, None)
    ELSE IF Translation_update_translation(Get(translation_table), Get(feedback.suggested_translation)).result.kind = "raised"
    THEN Stored(Outcome(feedback, Raised("ValidationError")), translation_table, None)
    ELSE IF failing = "translation.update"
    THEN Stored(Outcome(feedback, Raised("RepositoryError")), translation_table, None)
    ELSE Stored(Feedback_implement(ApprovedFirst(feedback, expert_id, now)),
                Some(TranslationUpdateRow(Get(translation_table),
                         Translation_update_translation(Get(translation_table), Get(feedback.suggested_translation)).self)),
                None)

ReviewFeedback_execute(request, feedback_table, translation_table, failing, now) ==
    IF ~RequestValid(request) THEN Stored(feedback_table, translation_table, Raised("ValidationError"))
    ELSE IF failing = "feedback.find_by_id"
    THEN Stored(feedback_table, translation_table, Raised("RepositoryError"))
    ELSE IF feedback_table = None
    THEN Stored(feedback_table, translation_table, Raised("NotFoundError"))
    ELSE CASE request.action = "approve" ->
                SaveFeedback(Feedback_approve(Get(feedback_table), request.expert_id, request.expert_notes, now),
                             feedback_table, translation_table, failing)
           [] request.action = "reject" ->
                SaveFeedback(Feedback_reject(Get(feedback_table), request.expert_id, request.expert_notes, now),
                             feedback_table, translation_table, failing)
           [] request.action = "implement" ->
                SaveFeedback(_implement_feedback(Get(feedback_table), request.expert_id, translation_table, failing, now).feedback_table,
                             feedback_table,
                             _implement_feedback(Get(feedback_table), request.expert_id, translation_table, failing, now).translation_table,
                             failing)

\* the feedback row, reviewed by expert1 at time 0 unless it is pending
FeedbackRow(status, suggested_translation) ==
    [status |-> status,
     reviewed_by |-> IF status = "PENDING" THEN None ELSE Some("expert1"),
     reviewed_at |-> IF status = "PENDING" THEN None ELSE Some(0),
     expert_notes |-> None,
     suggested_translation |-> suggested_translation]

FeedbackTables ==
    {None} \cup
    { Some(FeedbackRow(status, suggested_translation)) :
        status \in {"PENDING", "REVIEWED", "APPROVED", "REJECTED", "IMPLEMENTED"},
        suggested_translation \in {None, Some(<<" ">>), Some(<<"b">>), Some(<<" ", "c", " ">>)} }

TranslationTables ==
    { None,
      Some([target_text |-> <<"a">>, status |-> "PENDING", approved_by |-> None]),
      Some([target_text |-> <<"a">>, status |-> "APPROVED", approved_by |-> Some("expert1")]) }

ReviewFeedbackRequests ==
    [action : ValidActions \cup {"delete"}, expert_id : {"expert2"}, expert_notes : ExpertNotesInputs]

InitReviewFeedback ==
    /\ pc = "ready"
    /\ ret = NoReturn
    /\ \E request \in ReviewFeedbackRequests, ft \in FeedbackTables, tt \in TranslationTables :
          args = [op |-> "ReviewFeedbackUseCase.execute", request |-> request,
                  feedback_table |-> ft, translation_table |-> tt]

ReviewFeedbackExecute ==
    /\ pc = "ready"
    /\ args.op = "ReviewFeedbackUseCase.execute"
    /\ \E failing \in RepositoryCalls \cup {"none"} :
          \E stored \in {ReviewFeedback_execute(args.request, args.feedback_table, args.translation_table, failing, 1)} :
              /\ args' = [args EXCEPT !.feedback_table = stored.feedback_table,
                                      !.translation_table = stored.translation_table]
              /\ ret' = stored.result
    /\ pc' = "done"

NextReviewFeedback == ReviewFeedbackExecute

SpecReviewFeedback == InitReviewFeedback /\ [][NextReviewFeedback]_vars

\* C27: execute is all-or-nothing on the stored rows: if it raises, neither
\* the stored feedback nor the stored translation has changed; if it succeeds
\* with action implement on feedback carrying a suggested translation, the
\* stored feedback is IMPLEMENTED and the stored translation (when there is
\* one) has the suggestion, stripped, as target_text, status NEEDS_REVIEW and
\* approved_by cleared.
C27_AllOrNothing ==
    [][(args.op = "ReviewFeedbackUseCase.execute" /\ pc = "ready") =>
          /\ ret'.kind = "raised" =>
                /\ args'.feedback_table = args.feedback_table
                /\ args'.translation_table = args.translation_table
          /\ (/\ ret'.kind = "returned"
              /\ args.request.action = "implement"
              /\ Get(args.feedback_table).suggested_translation # None) =>
                /\ Get(args'.feedback_table).status = "IMPLEMENTED"
                /\ args'.translation_table # None =>
                      /\ Get(args'.translation_table).target_text =
                             Strip(Get(Get(args.feedback_table).suggested_translation))
                      /\ Get(args'.translation_table).status = "NEEDS_REVIEW"
                      /\ Get(args'.translation_table).approved_by = None]_vars

(***************************************************************************)
(* SubmitFeedbackUseCase.execute, called concurrently on one translation.  *)
(* A call runs from one await to the next without interruption, and the    *)
(* calls interleave at the awaited repository calls: pc[p] names the       *)
(* repository call that call p is waiting to make.  args carries the       *)
(* requests, the two tables, the translation each call has loaded for the  *)
(* rating update, and the count and sum of the ratings of the calls that   *)
(* have returned.                                                          *)
(***************************************************************************)
MaxSubmitters == 2

Submitters == 1..MaxSubmitters

SubmitFeedbackRequests == [user_id : {None, Some("user1")}, rating : {None, Some(2), Some(5), Some(6)}]

\* the tables before the calls: no feedback yet; one rating of 3 by user1
\* already counted; the translation missing
SubmitTables ==
    { [feedback_table |-> <<>>,
       translation_table |-> Some([average_rating |-> F64Zero, total_ratings |-> 0]),
       rating_count |-> 0, rating_sum |-> 0],
      [feedback_table |-> <<[user_id |-> Some("user1"), rating |-> Some(3)]>>,
       translation_table |-> Some([average_rating |-> F64Nat(3), total_ratings |-> 1]),
       rating_count |-> 1, rating_sum |-> 3],
      [feedback_table |-> <<>>, translation_table |-> None, rating_count |-> 0, rating_sum |-> 0] }

\* has_user_rated_translation: a row of the user for the translation exists
has_user_rated_translation(feedback_table, user_id) ==
    \E i \in 1..Len(feedback_table) : feedback_table[i].user_id = Some(user_id)

\* _validate_request on a request that carries a rating or nothing
SubmitRequestError(request, translation_table) ==
    IF translation_table = None THEN Some("NotFoundError")
    ELSE IF request.rating # None /\ ~(1 <= Get(request.rating) /\ Get(request.rating) <= 5)
    THEN Some("ValidationError")
    ELSE IF request.rating = None THEN Some("ValidationError")
    ELSE None

InitSubmitFeedback ==
    /\ pc = [p \in Submitters |-> "translation.find_by_id"]
    /\ ret = [p \in Submitters |-> NoReturn]
    /\ \E requests \in [Submitters -> SubmitFeedbackRequests], tables \in SubmitTables :
          args = [op |-> "SubmitFeedbackUseCase.execute",
                  request |-> requests,
                  feedback_table |-> tables.feedback_table,
                  translation_table |-> tables.translation_table,
                  translation |-> [p \in Submitters |-> None],
                  rating_count |-> tables.rating_count,
                  rating_sum |-> tables.rating_sum]

\* args once call p has returned: its rating is one of those submitted
AfterSubmit(a, p) ==
    IF a.request[p].rating = None THEN a
    ELSE [a EXCEPT !.rating_count = @ + 1, !.rating_sum = @ + Get(a.request[p].rating)]

\* lines 42 and 78-117: the translation is looked up, the request validated
SubmitValidate ==
    \E p \in Submitters :
        /\ args.op = "SubmitFeedbackUseCase.execute"
        /\ pc[p] = "translation.find_by_id"
        /\ \E error \in {SubmitRequestError(args.request[p], args.translation_table)} :
              IF error # None
              THEN /\ ret' = [ret EXCEPT ![p] = Raised(Get(error))]
                   /\ pc' = [pc EXCEPT ![p] = "done"]
              ELSE /\ ret' = ret
                   /\ pc' = [pc EXCEPT ![p] = IF args.request[p].user_id # None
                                                THEN "feedback.has_user_rated_translation"
                                                ELSE "feedback.save"]
        /\ UNCHANGED args

\* lines 45-50
SubmitCheckExisting ==
    \E p \in Submitters :
        /\ args.op = "SubmitFeedbackUseCase.execute"
        /\ pc[p] = "feedback.has_user_rated_translation"
        /\ IF has_user_rated_translation(args.feedback_table, Get(args.request[p].user_id))
           THEN /\ ret' = [ret EXCEPT ![p] = Raised("ValidationError")]
                /\ pc' = [pc EXCEPT ![p] = "done"]
           ELSE /\ ret' = ret
                /\ pc' = [pc EXCEPT ![p] = "feedback.save"]
        /\ UNCHANGED args

\* lines 69-76: the feedback is saved; without a rating the call returns
SubmitSave ==
    \E p \in Submitters :
        /\ args.op = "SubmitFeedbackUseCase.execute"
        /\ pc[p] = "feedback.save"
        /\ \E saved \in {[args EXCEPT !.feedback_table = Append(@, args.request[p])]} :
              IF args.request[p].rating # None
              THEN /\ args' = saved
                   /\ ret' = ret
                   /\ pc' = [pc EXCEPT ![p] = "rating.find_by_id"]
              ELSE /\ args' = AfterSubmit(saved, p)
                   /\ ret' = [ret EXCEPT ![p] = Returned(args.request[p])]
                   /\ pc' = [pc EXCEPT ![p] = "done"]

\* lines 135-137: the translation is loaded and the rating added in memory
SubmitLoadTranslation ==
    \E p \in Submitters :
        /\ args.op = "SubmitFeedbackUseCase.execute"
        /\ pc[p] = "rating.find_by_id"
        /\ IF args.translation_table = None
           THEN /\ args' = AfterSubmit(args, p)
                /\ ret' = [ret EXCEPT ![p] = Returned(args.request[p])]
                /\ pc' = [pc EXCEPT ![p] = "done"]
           ELSE /\ args' = [args EXCEPT !.translation[p] =
                               Some(Translation_add_rating(Get(args.translation_table),
                                                           Get(args.request[p].rating)).self)]
                /\ ret' = ret
                /\ pc' = [pc EXCEPT ![p] = "translation.update"]

\* line 138 and line 76: the loaded translation is written back
SubmitUpdateTranslation ==
    \E p \in Submitters :
        /\ args.op = "SubmitFeedbackUseCase.execute"
        /\ pc[p] = "translation.update"
        /\ args' = AfterSubmit([args EXCEPT !.translation_table = args.translation[p]], p)
        /\ ret' = [ret EXCEPT ![p] = Returned(args.request[p])]
        /\ pc' = [pc EXCEPT ![p] = "done"]

NextSubmitFeedback ==
    \/ SubmitValidate
    \/ SubmitCheckExisting
    \/ SubmitSave
    \/ SubmitLoadTranslation
    \/ SubmitUpdateTranslation

SpecSubmitFeedback == InitSubmitFeedback /\ [][NextSubmitFeedback]_vars

\* the rows of the table that the user has saved
RowsOf(feedback_table, user_id) ==
    {i \in 1..Len(feedback_table) : feedback_table[i].user_id = Some(user_id)}

\* C28: under any interleaving of execute calls with the same non-null
\* user_id and translation_id, at most one feedback of the user for the
\* translation is saved: at most one call reaches feedback_repository.save.
C28_OneFeedbackPerUser ==
    args.op = "SubmitFeedbackUseCase.execute" =>
        Cardinality(RowsOf(args.feedback_table, "user1")) <= 1

\* C29: once the execute calls have ended, in any interleaving, the stored
\* translation's total_ratings counts every rating submitted by a call that
\* returned and its average_rating is the mean of all ratings submitted.
C29_EveryRatingCounted ==
    (/\ args.op = "SubmitFeedbackUseCase.execute"
     /\ \A p \in Submitters : pc[p] = "done"
     /\ args.translation_table # None) =>
        /\ Get(args.translation_table).total_ratings = args.rating_count
        /\ args.rating_count > 0 =>
              Get(args.translation_table).average_rating = MeanOf(args.rating_sum, args.rating_count)

(***************************************************************************)
(* FindMinimalPairsUseCase.execute over the word table.  args carries the  *)
(* request and the rows of the table.                                      *)
(***************************************************************************)
\* request.language.lower() on the language names passed
LanguageLower(language) == IF language = "SHUAR" THEN "shuar" ELSE language

\* sub occurs in text
IsSubstring(sub, text) ==
    \E i \in 0..(Len(text) - Len(sub)) : SubSeq(text, i + 1, i + Len(sub)) = sub

\* SupabaseWordRepository.find_by_shuar_text: the first row whose text equals
\* the lowered text
find_by_shuar_text(table, shuar_text) ==
    IF \E i \in 1..Len(table) : table[i].shuar_text = Lower(shuar_text)
    THEN Some(table[CHOOSE i \in 1..Len(table) :
                       /\ table[i].shuar_text = Lower(shuar_text)
                       /\ \A j \in 1..(i - 1) : table[j].shuar_text # Lower(shuar_text)])
    ELSE None

\* SupabaseWordRepository.search_similar_shuar_words: the rows that contain
\* the text, whatever the case, without the exact matches
search_similar_shuar_words(table, shuar_text) ==
    SelectSeq(table, LAMBDA w : /\ IsSubstring(Lower(shuar_text), Lower(w.shuar_text))
                                /\ Lower(w.shuar_text) # Lower(shuar_text))

\* Word(shuar_text=..., spanish_translation=...): __post_init__ validates
NewWord(shuar_text, spanish_translation) ==
    IF shuar_text = <<>> \/ Strip(shuar_text) = <<>> THEN Raised("ValidationError")
    ELSE IF spanish_translation = <<>> \/ Strip(spanish_translation) = <<>>
    THEN Raised("ValidationError")
    ELSE Returned(Word(shuar_text, None, None))

\* lines 316-322: of every pair that holds the requested word, the other word
RECURSIVE PairPartners(_, _)
PairPartners(minimal_pairs, word) ==
    IF minimal_pairs = <<>> THEN <<>>
    ELSE (IF Lower(Head(minimal_pairs)[1].shuar_text) = Lower(word)
          THEN <<Head(minimal_pairs)[2]>>
          ELSE IF Lower(Head(minimal_pairs)[2].shuar_text) = Lower(word)
          THEN <<Head(minimal_pairs)[1]>>
          ELSE <<>>)
         \o PairPartners(Tail(minimal_pairs), word)

\* lines 324-330: the first word of every text
RECURSIVE UniqueWords(_, _)
UniqueWords(result_words, seen) ==
    IF result_words = <<>> THEN <<>>
    ELSE IF Head(result_words).shuar_text \in seen THEN UniqueWords(Tail(result_words), seen)
    ELSE <<Head(result_words)>>
         \o UniqueWords(Tail(result_words), seen \cup {Head(result_words).shuar_text})

\* lines 308-332, the target word being there
PairsWith(target_word, candidates, request) ==
    Returned(SliceTo(UniqueWords(PairPartners(find_minimal_pairs(<<target_word>> \o candidates,
                                                                 request.max_differences),
                                              request.word),
                                 {}),
                     request.max_results))

\* lines 298-306: the stored word, or else a temporary word without translation
TargetWord(request, table) ==
    IF LanguageLower(request.language) = "shuar" /\ find_by_shuar_text(table, request.word) # None
    THEN Returned(Get(find_by_shuar_text(table, request.word)))
    ELSE NewWord(request.word, <<>>)

FindMinimalPairs_execute(request, table) ==
    IF request.word = <<>> \/ Strip(request.word) = <<>> THEN Raised("ValidationError")
    ELSE IF TargetWord(request, table).kind = "raised" THEN TargetWord(request, table)
    ELSE PairsWith(TargetWord(request, table).value,
                   IF LanguageLower(request.language) = "shuar"
                   THEN search_similar_shuar_words(table, request.word)
                   ELSE table,
                   request)

MinimalPairsRequests ==
    [word : {<<>>, <<" ">>, <<"a">>, <<"A">>, <<"t", "a">>, <<"x">>},
     language : {"shuar", "SHUAR", "spanish"},
     max_differences : {1, 2},
     max_results : {1, 10}]

InitMinimalPairs ==
    /\ pc = "ready"
    /\ ret = NoReturn
    /\ \E request \in MinimalPairsRequests, table \in WordLists :
          args = [op |-> "FindMinimalPairsUseCase.execute", request |-> request, table |-> table]

FindMinimalPairsExecute ==
    /\ pc = "ready"
    /\ args.op = "FindMinimalPairsUseCase.execute"
    /\ ret' = FindMinimalPairs_execute(args.request, args.table)
    /\ pc' = "done"
    /\ UNCHANGED args

NextMinimalPairs == FindMinimalPairsExecute

SpecMinimalPairs == InitMinimalPairs /\ [][NextMinimalPairs]_vars

\* C30: execute returns a list of words for every non-blank request.word,
\* also when the word is not stored or the language is Spanish: no
\* ValidationError is raised.
C30_ReturnsForEveryWord ==
    (/\ pc = "done"
     /\ args.op = "FindMinimalPairsUseCase.execute"
     /\ args.request.word # <<>>
     /\ Strip(args.request.word) # <<>>) =>
        ret.kind = "returned"

====
